---- MODULE Spec2Model ----
(***************************************************************************)
(* A model of the MPC compiler and garbled-circuit runtime.                *)
(*                                                                         *)
(* The module holds several independent state machines, one per component, *)
(* each with its own specification:                                        *)
(*   SpecGarble  circuit garbling and evaluation (garble.go, eval.go)      *)
(*   SpecSSA     SSA generation of for-loops, constant definitions and if  *)
(*               statements (ast/ssagen.go)                                *)
(*   SpecOT      the oblivious-transfer round trip (ot_test.go)            *)
(*   SpecCall    call inlining (ast/ssagen.go)                             *)
(*   SpecBinary  constant folding and SSA of binary expressions            *)
(*   SpecBuilder the divider and the comparators (compiler/circuits)       *)
(*   SpecRet     returns under a runtime condition (ast/ssagen.go)         *)
(*   SpecComp    Compiler.Prune and Compiler.Compile                       *)
(*   SpecIdx     array indices and slices (ast/ssagen.go)                  *)
(*   SpecDriver  main of apps/garbled                                      *)
(*   SpecParser  the lexer and the parser                                  *)
(*   SpecServe   evaluatorMode of apps/garbled                             *)
(*   SpecShift   Compiler.ShiftLeft                                        *)
(*   SpecPlayer  the BMR offline phase (bmr/player.go)                     *)
(*   SpecNet     the peer-to-peer network (p2p/network.go)                 *)
(*   SpecLambda  Peer.OTLambda (p2p/network.go)                            *)
(*   SpecAssign  assignments (ast/ssagen.go)                               *)
(* A specification leaves the variables of the other components idle.      *)
(***************************************************************************)
EXTENDS Integers, Sequences, FiniteSets, TLC

(***************************************************************************)
(* Bounds of the model.                                                    *)
(***************************************************************************)
\* Width of a label in bits (128 in the program).
LabelBits == 2
\* Number of circuit input wires.
NumInputs == 2
\* Largest number of gates of a circuit.
MaxGates == 2
\* gen.Params.MaxLoopUnroll, the cap on the expansions of a loop body.
MaxLoopUnroll == 3
\* Largest constant a loop variable is compared with.
MaxLimit == 5
\* Number of wires of an oblivious transfer (1024 in testOT).
NumOT == 2
\* Order of the group of the oblivious transfer.
GroupOrder == 5
\* Width in bits of the integer constants (32 and 64 in the program).
IntBits == 3
\* Largest number of calls in a function body.
MaxCalls == 2
\* Depth of the compilation stack at which the Go runtime's stack is exhausted.
MaxStack == 4

\* The widest operand of a constructed circuit, in wires.
MaxWidth == 3

\* The most result wires handed to a comparator.
MaxResultWires == 2

\* The width of an int of a compiled program, and the largest input value.
WordBits == 4
MaxInput == 5

\* The most gates of a built circuit that is pruned and compiled, and the
\* most calls of Prune on it.
MaxBuiltGates == 3
MaxPrunes == 2

\* The widest sliced value or array element in bits, and the largest array.
MaxBits == 4
MaxArraySize == 3

\* The most parties of a circuit (input descriptors).
MaxParties == 3

\* The most words after the well-formed part of a parsed text.
MaxTail == 2

\* The most sessions the evaluator serves.
MaxSessions == 4

\* The width of a label share of the BMR protocol in bits.
ShareBits == 1

\* The largest count of OTLambda.
MaxOTs == 3

\* The most l-values of an assignment.
MaxLValues == 2

(***************************************************************************)
(* Labels (package ot): bit strings of LabelBits bits, as naturals.        *)
(***************************************************************************)
RECURSIVE Pow2(_)
Pow2(n) == IF n = 0 THEN 1 ELSE 2 * Pow2(n - 1)

LabelMod == Pow2(LabelBits)

Labels == 0 .. (LabelMod - 1)

RECURSIVE XorBits(_, _, _)
XorBits(a, b, n) ==
    IF n = 0 THEN 0
    ELSE (((a % 2) + (b % 2)) % 2) + 2 * XorBits(a \div 2, b \div 2, n - 1)

XorTable == [a \in Labels |-> [b \in Labels |-> XorBits(a, b, LabelBits)]]

\* Label.Xor
Xor(a, b) == XorTable[a][b]

\* Label.S: the permute-and-point bit, the least significant bit.
S(l) == (l % 2) = 1

\* Label.SetS(true)
SetS(l) == IF S(l) THEN l ELSE l + 1

\* Label.Mul2: carry-less doubling, the top bit falls off.
Mul2(l) == (2 * l) % LabelMod

\* Label.Mul4
Mul4(l) == (4 * l) % LabelMod

\* ot.NewTweak: the gate id as a label.
NewTweak(t) == t % LabelMod

\* The fixed-key block cipher, a permutation of the labels.
AES(x) == (5 * x + 3) % LabelMod

\* A nil *ot.Label.
Nil == -1

(***************************************************************************)
(* garble.go                                                               *)
(***************************************************************************)
Ops == {"XOR", "XNOR", "AND", "OR", "INV"}

\* makeK
makeK(a, b, t) ==
    LET k  == Mul2(a)
        k2 == IF b # Nil THEN Xor(k, Mul4(b)) ELSE k
    IN  Xor(k2, NewTweak(t))

\* encrypt
encrypt(a, b, c, t) ==
    LET k == makeK(a, b, t)
    IN  Xor(Xor(AES(k), k), c)

\* decrypt
decrypt(a, b, t, encrypted) ==
    LET k == makeK(a, b, t)
    IN  Xor(Xor(encrypted, AES(k)), k)

idxSwapped(l0, l1) ==
    IF l0 = Nil
    THEN IF l1 = Nil THEN 0 ELSE IF S(l1) THEN 1 ELSE 0
    ELSE IF l1 = Nil
         THEN IF S(l0) THEN 1 ELSE 0
         ELSE (IF S(l0) THEN 1 ELSE 0) + (IF S(l1) THEN 2 ELSE 0)

\* idx
idx(l0, l1) ==
    IF l0 = Nil
    THEN IF l1 = Nil THEN 0 ELSE IF S(l1) THEN 1 ELSE 0
    ELSE IF l1 = Nil
         THEN IF S(l0) THEN 1 ELSE 0
         ELSE (IF S(l0) THEN 2 ELSE 0) + (IF S(l1) THEN 1 ELSE 0)

\* entry
entry(a, b, c, tweak) == [Index |-> idx(a, b), Data |-> encrypt(a, b, c, tweak)]

\* makeLabels; l0 is the label read from rand.Reader.
makeLabels(r, l0) == [Label0 |-> l0, Label1 |-> Xor(l0, r)]

\* sort.Sort(ByIndex(table)): insertion of each entry before the first entry
\* with a larger index.
RECURSIVE InsertByIndex(_, _)
InsertByIndex(e, s) ==
    IF s = <<>> THEN <<e>>
    ELSE IF e.Index < Head(s).Index THEN <<e>> \o s
         ELSE <<Head(s)>> \o InsertByIndex(e, Tail(s))

RECURSIVE SortByIndex(_)
SortByIndex(table) ==
    IF table = <<>> THEN <<>>
    ELSE InsertByIndex(Head(table), SortByIndex(Tail(table)))

NoSort(table) == table

\* The sorting step of Gate.Garble.
SortTable(table) == SortByIndex(table)

\* Gate.Inputs
GateInputs(g) == IF g.op = "INV" THEN <<g.in0>> ELSE <<g.in0, g.in1>>

\* Gate.Garble, first loop: the labels of the input wires, made when missing.
\* rnd[w] is the label rand.Reader yields when wire w gets its labels.
RECURSIVE GarbleInputs(_, _, _, _)
GarbleInputs(ins, wires, r, rnd) ==
    IF ins = <<>> THEN wires
    ELSE LET i == Head(ins)
             w == IF i \in DOMAIN wires THEN wires
                  ELSE (i :> makeLabels(r, rnd[i])) @@ wires
         IN  GarbleInputs(Tail(ins), w, r, rnd)

\* Gate.Garble, the rows of the table before sorting.
GateRows(g, a, b, c) ==
    CASE g.op = "XOR" -> <<>>
      [] g.op = "AND" ->
           << entry(a.Label0, b.Label0, c.Label0, g.id),
              entry(a.Label0, b.Label1, c.Label0, g.id),
              entry(a.Label1, b.Label0, c.Label0, g.id),
              entry(a.Label1, b.Label1, c.Label1, g.id) >>
      [] g.op = "OR" ->
           << entry(a.Label0, b.Label0, c.Label0, g.id),
              entry(a.Label0, b.Label1, c.Label1, g.id),
              entry(a.Label1, b.Label0, c.Label1, g.id),
              entry(a.Label1, b.Label1, c.Label1, g.id) >>
      [] g.op = "INV" ->
           << entry(a.Label0, Nil, c.Label1, g.id),
              entry(a.Label1, Nil, c.Label0, g.id) >>
      [] OTHER -> <<>>

XorOutputWrong(a, b) ==
    [Label0 |-> Xor(a.Label0, b.Label0), Label1 |-> Xor(a.Label1, b.Label1)]

\* Gate.Garble, the output labels of an XOR gate.
XorOutput(a, b) ==
    [Label0 |-> Xor(a.Label0, b.Label0), Label1 |-> Xor(a.Label0, b.Label1)]

\* Gate.Garble: the wires after the gate, its table, and the error.
GateGarble(g, wires, r, rnd) ==
    LET w1 == GarbleInputs(GateInputs(g), wires, r, rnd)
        a  == w1[g.in0]
        b  == IF g.op = "INV" THEN a ELSE w1[g.in1]
    IN  IF g.out \in DOMAIN w1
        THEN [err |-> "gate output already set", wires |-> w1, table |-> <<>>]
        ELSE LET c  == IF g.op = "XOR" THEN XorOutput(a, b)
                       ELSE makeLabels(r, rnd[g.out])
                 w2 == (g.out :> c) @@ w1
                 t  == SortTable(GateRows(g, a, b, c))
             IN  IF g.op \in {"XOR", "AND", "OR", "INV"}
                 THEN [err   |-> "none",
                       wires |-> w2,
                       table |-> [k \in 1 .. Len(t) |-> t[k].Data]]
                 ELSE [err |-> "Invalid operand", wires |-> w2, table |-> <<>>]

\* Circuit.Garble, the loop over the gates from gate k on.
RECURSIVE GarbleGates(_, _, _, _, _, _)
GarbleGates(gates, k, wires, tables, r, rnd) ==
    IF k > Len(gates) THEN [err |-> "none", wires |-> wires, tables |-> tables]
    ELSE LET res == GateGarble(gates[k], wires, r, rnd)
         IN  IF res.err # "none"
             THEN [err |-> res.err, wires |-> res.wires, tables |-> tables]
             ELSE GarbleGates(gates, k + 1, res.wires,
                              Append(tables, res.table), r, rnd)

\* Circuit.Garble, the last loop: labels for the wires no gate has set.
FillUnset(c, wires, r, rnd) ==
    [i \in 0 .. (c.NumWires - 1) |->
        IF i \in DOMAIN wires THEN wires[i] ELSE makeLabels(r, rnd[i])]

\* Circuit.Garble. r0 is the label rand.Reader yields for R.
CircuitGarble(c, r0, rnd) ==
    LET r   == SetS(r0)
        res == GarbleGates(c.Gates, 1, <<>>, <<>>, r, rnd)
    IN  IF res.err # "none"
        THEN [err |-> res.err, r |-> r, Wires |-> <<>>, Gates |-> <<>>]
        ELSE [err |-> "none", r |-> r,
              Wires |-> FillUnset(c, res.wires, r, rnd), Gates |-> res.tables]

(***************************************************************************)
(* eval.go                                                                 *)
(***************************************************************************)
GateEvalDefaultLabel(g, wires, garbled) ==
    LET a == IF g.in0 \in DOMAIN wires THEN wires[g.in0] ELSE 0
        b == IF g.op = "INV" THEN Nil
             ELSE IF g.in1 \in DOMAIN wires THEN wires[g.in1] ELSE 0
    IN  IF g.op \notin {"XOR", "AND", "OR", "INV"}
        THEN [err |-> "Invalid operation", out |-> Nil]
        ELSE IF g.op = "XOR" THEN [err |-> "none", out |-> Xor(a, b)]
        ELSE IF idx(a, b) >= Len(garbled)
        THEN [err |-> "corrupted circuit", out |-> Nil]
        ELSE [err |-> "none", out |-> decrypt(a, b, g.id, garbled[idx(a, b) + 1])]

\* Gate.Eval: the label of the output wire, or the error.
GateEval(g, wires, garbled) ==
    LET aOK == g.in0 \in DOMAIN wires
        bOK == IF g.op = "INV" THEN TRUE ELSE g.in1 \in DOMAIN wires
        a   == wires[g.in0]
        b   == IF g.op = "INV" THEN Nil ELSE wires[g.in1]
    IN  IF g.op \notin {"XOR", "AND", "OR", "INV"}
        THEN [err |-> "Invalid operation", out |-> Nil]
        ELSE IF ~aOK THEN [err |-> "No input for wire a found", out |-> Nil]
        ELSE IF ~bOK THEN [err |-> "No input for wire b found", out |-> Nil]
        ELSE IF g.op = "XOR" THEN [err |-> "none", out |-> Xor(a, b)]
        ELSE IF idx(a, b) >= Len(garbled)
        THEN [err |-> "corrupted circuit", out |-> Nil]
        ELSE [err |-> "none", out |-> decrypt(a, b, g.id, garbled[idx(a, b) + 1])]

\* Circuit.Eval, the loop over the gates from gate k on: the wire map it
\* leaves, the error, and the number of gates evaluated.
RECURSIVE EvalGates(_, _, _, _)
EvalGates(gates, k, wires, garbled) ==
    IF k > Len(gates) THEN [err |-> "none", wires |-> wires, done |-> k - 1]
    ELSE LET res == GateEval(gates[k], wires, garbled[k])
         IN  IF res.err # "none"
             THEN [err |-> res.err, wires |-> wires, done |-> k - 1]
             ELSE EvalGates(gates, k + 1, (gates[k].out :> res.out) @@ wires,
                            garbled)

\* Circuit.Eval
CircuitEval(c, wires, garbled) == EvalGates(c.Gates, 1, wires, garbled)

\* The plaintext value of a gate: the truth tables in Gate.Garble's comments.
GateValue(op, x, y) ==
    CASE op = "XOR"  -> IF x # y THEN 1 ELSE 0
      [] op = "XNOR" -> IF x = y THEN 1 ELSE 0
      [] op = "AND"  -> IF x = 1 /\ y = 1 THEN 1 ELSE 0
      [] op = "OR"   -> IF x = 1 \/ y = 1 THEN 1 ELSE 0
      [] op = "INV"  -> 1 - x

(***************************************************************************)
(* The circuits: NumInputs input wires 0 .. NumInputs-1, then up to        *)
(* MaxGates gates in topological order; gate k (from 1) has id k-1 and     *)
(* drives wire NumInputs+k-1, as in a compiled circuit with dense wire ids.*)
(***************************************************************************)
GatesAt(k) ==
    { [op |-> o, in0 |-> a, in1 |-> b, out |-> NumInputs + k - 1, id |-> k - 1] :
        o \in Ops \ {"INV"},
        a \in 0 .. (NumInputs + k - 2),
        b \in 0 .. (NumInputs + k - 2) }
    \cup
    { [op |-> "INV", in0 |-> a, in1 |-> 0, out |-> NumInputs + k - 1, id |-> k - 1] :
        a \in 0 .. (NumInputs + k - 2) }

RECURSIVE GateSeqs(_)
GateSeqs(n) ==
    IF n = 0 THEN {<<>>}
    ELSE {Append(s, g) : s \in GateSeqs(n - 1), g \in GatesAt(n)}

\* The circuits of 1 to m gates.
Circuits(m) ==
    UNION { { [NumWires |-> NumInputs + n, Gates |-> gs] : gs \in GateSeqs(n) } :
            n \in 1 .. m }

(***************************************************************************)
(* The garbling state machine: a circuit is garbled, then evaluated.       *)
(***************************************************************************)
VARIABLES
    circ,        \* the circuit
    gpc,         \* "start", "garbled", "failed", "evaluated"; "idle" elsewhere
    garbled,     \* what Circuit.Garble returned, with the offset R it drew
    evalIn,      \* the plaintext bit of each input wire given to Eval, Nil: no label
    evalTables,  \* the tables given to Eval
    evalRes      \* what Circuit.Eval returned and the wire map it left

garbleVars == <<circ, gpc, garbled, evalIn, evalTables, evalRes>>

VARIABLES
    stmt,       \* the statement being compiled; kind "none" elsewhere
    spc,        \* "start", "loop" (inside For.SSA's loop), "done"; "idle" elsewhere
    serr,       \* the error the SSA method returned, "none": no error (yet)
    bindings,   \* block.Bindings of the block the method returns: name -> value
    dead,       \* block.Dead of the block the method returns
    fi,         \* For.SSA: the counter i of the unrolling loop
    fEnv,       \* For.SSA: the loop variable in env, NonConst: not a constant
    fExpanded,  \* For.SSA: the number of times the body was expanded
    fNonConst,  \* For.SSA: the statement whose Eval returned ok = false
    emitted,    \* If.SSA: the branches whose SSA was generated, in order
    merged      \* If.SSA: the Bindings.Merge calls made: <<cond, true, false>>

ssaVars == <<stmt, spc, serr, bindings, dead, fi, fEnv, fExpanded, fNonConst,
             emitted, merged>>

VARIABLES
    otWires,    \* testOT: the label pairs <<L0, L1>> the sender holds
    otFlags,    \* testOT: the receiver's choice bits
    otLabels,   \* testOT: the labels Receive stored, Nil: not yet
    spcS,       \* sender: "start", "inited", "send", "done"; "idle" elsewhere
    spcR,       \* receiver: "start", "inited", "request", "response", "check", "done"
    coY,        \* sender's secret scalar y
    coX,        \* receiver's secret scalar x of the current instance
    coS,        \* the point S as the receiver got it
    toR,        \* the pipe from sender to receiver
    toS,        \* the pipe from receiver to sender
    sIdx,       \* sender: the next wire to send
    rIdx,       \* receiver: the next label to receive
    done        \* testOT: what the receiver goroutine sent on done, "pending": nothing yet

otVars == <<otWires, otFlags, otLabels, spcS, spcR, coY, coX, coS, toR, toS,
            sIdx, rIdx, done>>

VARIABLES
    cprog,      \* pkg.Functions: function name -> the calls of its body, in order
    cstack,     \* ctx.Stack: the active compilations <<function, next call of its body>>
    cpc,        \* "run", "done", "overflow" (goroutine stack exhausted); "idle" elsewhere
    cerr        \* the error the outermost SSA method returned, "none": no error (yet)

callVars == <<cprog, cstack, cpc, cerr>>

VARIABLES
    bexpr,      \* the binary expression: operator, left and right operand
    bpc,        \* "start", "evaluated" (Binary.Eval ran), "compiled" (Binary.SSA ran)
    bres,       \* what Binary.Eval returned
    bssa        \* what Binary.SSA returned and the instructions it added

binaryVars == <<bexpr, bpc, bres, bssa>>

VARIABLES
    tkind,      \* the circuit under construction: "div", "lt" or "le"
    tnx,        \* the number of wires of the first operand
    tny,        \* the number of wires of the second operand
    tnr,        \* the number of result wires handed to the constructor
    tx,         \* the value on the first operand's wires
    ty,         \* the value on the second operand's wires
    tpc,        \* "start", "built" or "done"
    tgates,     \* the gates the constructor added to the compiler
    terr,       \* TRUE when the constructor returned an error
    tvals       \* the value of every wire after the gates were computed

builderVars == <<tkind, tnx, tny, tnr, tx, ty, tpc, tgates, terr, tvals>>

VARIABLES
    rprog,      \* the program that is compiled, a name in Programs
    rin,        \* the values of main's arguments a and b
    rpc,        \* "start", "compiled" or "done"
    rblocks,    \* the blocks of the generator after the compilation
    rvals,      \* the SSA values that main returns
    rerr,       \* TRUE when the compilation failed
    rout        \* the values computed for main's results

retVars == <<rprog, rin, rpc, rblocks, rvals, rerr, rout>>

VARIABLES
    kall,       \* every gate the builder created, in the order of creation
    kgates,     \* Compiler.Gates
    kout,       \* the wires with Output set: the outputs of the circuit
    knum,       \* NumOutputs of every wire
    kdead,      \* the gates with Dead set, named by their output wire
    kprunes,    \* what the calls of Prune returned, latest last
    kbefore,    \* Compiler.Gates before the latest call of Prune
    kpc,        \* "built" or "compiled"
    kcirc       \* the circuit that Compile returned

compVars == <<kall, kgates, kout, knum, kdead, kprunes, kbefore, kpc, kcirc>>

VARIABLES
    xkind,      \* the expression compiled: "index", "assign" or "slice"
    xbits,      \* the width in bits of the sliced value or of an array element
    xsize,      \* the number of elements of the array
    xfrom,      \* the index, or the lower bound of the slice
    xto,        \* the upper bound of the slice
    xpc,        \* "start" or "done"
    xerr,       \* the error returned, "" for none
    xinstr      \* the instructions added to the block

idxVars == <<xkind, xbits, xsize, xfrom, xto, xpc, xerr, xinstr>>

VARIABLES
    dflags,     \* the flags: compile (-circ or -ssa), stream, evaluator, bmr
    dnargs,     \* len(flag.Args())
    dfile,      \* the kind of the input file: "circ", "mpcl" or "other"
    dnin,       \* len(circ.Inputs) of the circuit the file holds
    dfail,      \* the operation that fails, "none" when every one succeeds
    dpc,        \* the position of main: "start", "load", "run", "exited"
    dexit,      \* the exit code of the process once dpc = "exited"
    dout        \* the error message main printed, "" for none

driverVars == <<dflags, dnargs, dfile, dnin, dfail, dpc, dexit, dout>>

VARIABLES
    ptext,      \* the characters of the input
    ppc,        \* "start" or "done"
    pres        \* what Parse returned: a unit, an error, or a panic

parserVars == <<ptext, ppc, pres>>

VARIABLES
    vonce,      \* the parameter once of evaluatorMode
    vpc,        \* "listen", "accept", "session", "close" or "returned"
    vopen,      \* the accepted connections that are not closed
    verr,       \* the error of the session that just ended, "" for nil
    vlog,       \* the errors of the sessions so far, in order
    vret        \* the error evaluatorMode returned, "" for nil

serveVars == <<vonce, vpc, vopen, verr, vlog, vret>>

VARIABLES
    hw,         \* the wires to shift
    hsize,      \* the size of the result
    hcount,     \* the shift count
    hpc,        \* "start" or "done"
    hres        \* what ShiftLeft returned, or its panic

shiftVars == <<hw, hsize, hcount, hpc, hres>>

VARIABLES
    yc,         \* the circuit of the player (SetCircuit)
    yid,        \* the id of the player
    ypeers,     \* the indices of p.peers that are not nil
    ypc,        \* "start" or "done"
    yres        \* what offlinePhase returned and computed

playerVars == <<yc, yid, ypeers, ypc, yres>>

VARIABLES
    npeers,     \* npeers[n][id]: the entry of nw.Peers of network n for id
    nconn,      \* nconn[d]: the connection that network d dialled
    napc,       \* napc[n]: the position of AddPeer on network n
    nlpc        \* nlpc[n]: the position of the accept loop of network n

netVars == <<npeers, nconn, napc, nlpc>>

VARIABLES
    ocount,     \* ocount[p]: the count peer p passes to OTLambda
    ophase,     \* ophase[p]: "query", "respond", "done" or "failed"
    onum,       \* onum[p]: 1 in the first phase of OTLambda, 2 in the second
    ostep,      \* ostep[p]: the position in the phase
    oi,         \* oi[p]: the loop index i of the phase
    obuf,       \* obuf[p]: what p sent and has not flushed
    owire,      \* owire[p]: what p flushed and the other peer has not received
    oxfers      \* oxfers[p]: the transfers p started as the responder

lambdaVars == <<ocount, ophase, onum, ostep, oi, obuf, owire, oxfers>>

VARIABLES
    alvalues,   \* the l-values of the assignment
    anvalues,   \* the number of values its expressions yield
    adefine,    \* ast.Define: the assignment is a := definition
    apc,        \* "start" or "done"
    ares        \* what Assign.SSA returned and left in the block

assignVars == <<alvalues, anvalues, adefine, apc, ares>>

\* The variables of the other components, which a component leaves alone.
exceptGarble == <<ssaVars, otVars, callVars, binaryVars, builderVars,
                  retVars, compVars, idxVars, driverVars, parserVars,
                  serveVars, shiftVars, playerVars, netVars, lambdaVars,
                  assignVars>>

exceptSSA == <<garbleVars, otVars, callVars, binaryVars, builderVars,
               retVars, compVars, idxVars, driverVars, parserVars, serveVars,
               shiftVars, playerVars, netVars, lambdaVars, assignVars>>

exceptOT == <<garbleVars, ssaVars, callVars, binaryVars, builderVars,
              retVars, compVars, idxVars, driverVars, parserVars, serveVars,
              shiftVars, playerVars, netVars, lambdaVars, assignVars>>

exceptCall == <<garbleVars, ssaVars, otVars, binaryVars, builderVars,
                retVars, compVars, idxVars, driverVars, parserVars,
                serveVars, shiftVars, playerVars, netVars, lambdaVars,
                assignVars>>

exceptBinary == <<garbleVars, ssaVars, otVars, callVars, builderVars,
                  retVars, compVars, idxVars, driverVars, parserVars,
                  serveVars, shiftVars, playerVars, netVars, lambdaVars,
                  assignVars>>

exceptBuilder == <<garbleVars, ssaVars, otVars, callVars, binaryVars,
                   retVars, compVars, idxVars, driverVars, parserVars,
                   serveVars, shiftVars, playerVars, netVars, lambdaVars,
                   assignVars>>

exceptRet == <<garbleVars, ssaVars, otVars, callVars, binaryVars,
               builderVars, compVars, idxVars, driverVars, parserVars,
               serveVars, shiftVars, playerVars, netVars, lambdaVars,
               assignVars>>

exceptComp == <<garbleVars, ssaVars, otVars, callVars, binaryVars,
                builderVars, retVars, idxVars, driverVars, parserVars,
                serveVars, shiftVars, playerVars, netVars, lambdaVars,
                assignVars>>

exceptIdx == <<garbleVars, ssaVars, otVars, callVars, binaryVars,
               builderVars, retVars, compVars, driverVars, parserVars,
               serveVars, shiftVars, playerVars, netVars, lambdaVars,
               assignVars>>

exceptDriver == <<garbleVars, ssaVars, otVars, callVars, binaryVars,
                  builderVars, retVars, compVars, idxVars, parserVars,
                  serveVars, shiftVars, playerVars, netVars, lambdaVars,
                  assignVars>>

exceptParser == <<garbleVars, ssaVars, otVars, callVars, binaryVars,
                  builderVars, retVars, compVars, idxVars, driverVars,
                  serveVars, shiftVars, playerVars, netVars, lambdaVars,
                  assignVars>>

exceptServe == <<garbleVars, ssaVars, otVars, callVars, binaryVars,
                 builderVars, retVars, compVars, idxVars, driverVars,
                 parserVars, shiftVars, playerVars, netVars, lambdaVars,
                 assignVars>>

exceptShift == <<garbleVars, ssaVars, otVars, callVars, binaryVars,
                 builderVars, retVars, compVars, idxVars, driverVars,
                 parserVars, serveVars, playerVars, netVars, lambdaVars,
                 assignVars>>

exceptPlayer == <<garbleVars, ssaVars, otVars, callVars, binaryVars,
                  builderVars, retVars, compVars, idxVars, driverVars,
                  parserVars, serveVars, shiftVars, netVars, lambdaVars,
                  assignVars>>

exceptNet == <<garbleVars, ssaVars, otVars, callVars, binaryVars,
               builderVars, retVars, compVars, idxVars, driverVars,
               parserVars, serveVars, shiftVars, playerVars, lambdaVars,
               assignVars>>

exceptLambda == <<garbleVars, ssaVars, otVars, callVars, binaryVars,
                  builderVars, retVars, compVars, idxVars, driverVars,
                  parserVars, serveVars, shiftVars, playerVars, netVars,
                  assignVars>>

exceptAssign == <<garbleVars, ssaVars, otVars, callVars, binaryVars,
                  builderVars, retVars, compVars, idxVars, driverVars,
                  parserVars, serveVars, shiftVars, playerVars, netVars,
                  lambdaVars>>

(***************************************************************************)
(* Circuit.Garble and Circuit.Eval as actions.                             *)
(***************************************************************************)
NoGarbled == [err |-> "none", r |-> 0, Wires |-> <<>>, Gates |-> <<>>]

NoEval == [err |-> "none", wires |-> <<>>, done |-> 0]

GarbleInit ==
    /\ circ \in Circuits(MaxGates)
    /\ gpc = "start"
    /\ garbled = NoGarbled
    /\ evalIn = <<>>
    /\ evalTables = <<>>
    /\ evalRes = NoEval

GarbleIdle ==
    /\ circ = [NumWires |-> 0, Gates |-> <<>>]
    /\ gpc = "idle"
    /\ garbled = NoGarbled
    /\ evalIn = <<>>
    /\ evalTables = <<>>
    /\ evalRes = NoEval

\* Circuit.Garble(key): R and the wire labels come from rand.Reader.
Garble ==
    /\ gpc = "start"
    /\ \E r0 \in Labels, rnd \in [0 .. (circ.NumWires - 1) -> Labels] :
         /\ garbled' = CircuitGarble(circ, r0, rnd)
         /\ gpc' = IF garbled'.err = "none" THEN "garbled" ELSE "failed"
    /\ UNCHANGED <<circ, evalIn, evalTables, evalRes, exceptGarble>>

\* The wire map the evaluator starts with: for each input wire that has a
\* bit, the label Garble assigned to that bit.
InputLabels(bits) ==
    [i \in {j \in DOMAIN bits : bits[j] # Nil} |->
        IF bits[i] = 1 THEN garbled.Wires[i].Label1 ELSE garbled.Wires[i].Label0]

\* The tables with the table of gate cg (none when cg = 0) cut to its first
\* row.
CutTables(tables, cg) ==
    [k \in 1 .. Len(tables) |->
        IF k = cg /\ Len(tables[k]) > 1 THEN SubSeq(tables[k], 1, 1)
        ELSE tables[k]]

\* Circuit.Eval(key, wires, garbled) on the garbled circuit: the caller gives
\* the labels of the input wires (possibly not all of them) and the tables
\* (possibly with one table cut short in transit).
Eval ==
    /\ gpc = "garbled"
    /\ \E bits \in [0 .. (NumInputs - 1) -> {0, 1, Nil}],
          cg \in 0 .. Len(circ.Gates) :
         /\ cg # 0 => \A i \in DOMAIN bits : bits[i] # Nil
         /\ evalIn' = bits
         /\ evalTables' = CutTables(garbled.Gates, cg)
         /\ evalRes' = CircuitEval(circ, InputLabels(bits), evalTables')
    /\ gpc' = "evaluated"
    /\ UNCHANGED <<circ, garbled, exceptGarble>>

(***************************************************************************)
(* ast/ssagen.go: one statement is compiled on a block.                    *)
(***************************************************************************)
\* The value of a binding that is not a compile-time constant.
NonConst == -1

Names == {"x", "y"}

\* The block a statement is compiled on binds x and y to their first versions.
StartBindings == [n \in Names |-> <<"var", n, "0">>]

(***************************************************************************)
(* For.SSA.  The loops are  for v := <init>; v < <limit>; v = v + <step>   *)
(* where each part may also be a runtime value or fail to evaluate, and    *)
(* the body may assign a runtime value to v or fail to compile.            *)
(***************************************************************************)
ForInits ==
    {[kind |-> "const", val |-> v] : v \in 0 .. 1}
    \cup {[kind |-> k, val |-> 0] : k \in {"runtime", "error"}}

ForConds ==
    {[kind |-> "lt", limit |-> l] : l \in 0 .. MaxLimit}
    \cup {[kind |-> k, limit |-> 0] : k \in {"runtime", "nonbool", "error"}}

ForIncs ==
    {[kind |-> "add", step |-> d] : d \in 0 .. 2}
    \cup {[kind |-> k, step |-> 0] : k \in {"runtime", "error"}}

\* failAt = k: Body.SSA returns an error in expansion k (0: never);
\* runtime: the body assigns a runtime value to the loop variable.
ForBodies ==
    {[runtime |-> r, failAt |-> k] : r \in BOOLEAN, k \in 0 .. 2}

ForStmts ==
    {[kind |-> "for", init |-> i, cond |-> c, inc |-> n, body |-> b] :
        i \in ForInits, c \in ForConds, n \in ForIncs, b \in ForBodies}

\* Eval of the init statement: <<value, ok, err>>.
EvalInit(init) ==
    CASE init.kind = "const"   -> [val |-> init.val, ok |-> TRUE, err |-> FALSE]
      [] init.kind = "runtime" -> [val |-> NonConst, ok |-> FALSE, err |-> FALSE]
      [] OTHER                 -> [val |-> NonConst, ok |-> FALSE, err |-> TRUE]

\* Eval of the condition in env: Binary.Eval returns ok = false when an
\* operand is not constant.
EvalCond(cond, env) ==
    CASE cond.kind = "error" -> [val |-> FALSE, ok |-> FALSE, err |-> TRUE, bool |-> FALSE]
      [] cond.kind = "runtime" \/ env = NonConst ->
           [val |-> FALSE, ok |-> FALSE, err |-> FALSE, bool |-> FALSE]
      [] cond.kind = "nonbool" ->
           [val |-> FALSE, ok |-> TRUE, err |-> FALSE, bool |-> FALSE]
      [] OTHER ->
           [val |-> env < cond.limit, ok |-> TRUE, err |-> FALSE, bool |-> TRUE]

\* Eval of the increment statement in env.
EvalInc(inc, env) ==
    CASE inc.kind = "error" -> [val |-> NonConst, ok |-> FALSE, err |-> TRUE]
      [] inc.kind = "runtime" \/ env = NonConst ->
           [val |-> NonConst, ok |-> FALSE, err |-> FALSE]
      [] OTHER -> [val |-> env + inc.step, ok |-> TRUE, err |-> FALSE]

\* For.SSA up to the loop: the init statement.
ForSSAInit ==
    /\ spc = "start" /\ stmt.kind = "for"
    /\ LET r == EvalInit(stmt.init)
       IN  IF r.err
           THEN /\ serr' = "init failed" /\ spc' = "done"
                /\ UNCHANGED <<fEnv, fNonConst>>
           ELSE IF ~r.ok
           THEN /\ serr' = "init statement is not compile-time constant"
                /\ spc' = "done" /\ fNonConst' = "init"
                /\ UNCHANGED fEnv
           ELSE /\ fEnv' = r.val /\ spc' = "loop"
                /\ UNCHANGED <<serr, fNonConst>>
    /\ UNCHANGED <<stmt, bindings, dead, fi, fExpanded, emitted, merged, exceptSSA>>

LimitReachedLate(i) == i > MaxLoopUnroll

\* The test of the unroll cap at the head of the loop.
LimitReached(i) == i >= MaxLoopUnroll

\* What the iteration does after the body was expanded: the increment.
ForIncrementIgnoreOk(env) ==
    LET r == EvalInc(stmt.inc, env)
    IN  IF r.err
        THEN /\ serr' = "increment failed" /\ spc' = "done"
             /\ UNCHANGED <<fi, fEnv, fNonConst>>
        ELSE /\ fEnv' = r.val /\ fi' = fi + 1
             /\ fNonConst' = IF r.ok THEN fNonConst ELSE "inc"
             /\ UNCHANGED <<serr, spc>>

ForIncrement(env) ==
    LET r == EvalInc(stmt.inc, env)
    IN  IF r.err
        THEN /\ serr' = "increment failed" /\ spc' = "done"
             /\ UNCHANGED <<fi, fEnv, fNonConst>>
        ELSE IF ~r.ok
        THEN /\ serr' = "increment statement is not compile-time constant"
             /\ spc' = "done" /\ fNonConst' = "inc"
             /\ UNCHANGED <<fi, fEnv>>
        ELSE /\ fEnv' = r.val /\ fi' = fi + 1
             /\ UNCHANGED <<serr, spc, fNonConst>>

\* One iteration of For.SSA's loop  for i := 0; ; i++.
ForSSAIter ==
    /\ spc = "loop" /\ stmt.kind = "for"
    /\ IF LimitReached(fi)
       THEN /\ serr' = "for-loop unroll limit exceeded" /\ spc' = "done"
            /\ UNCHANGED <<fi, fEnv, fExpanded, fNonConst>>
       ELSE LET c == EvalCond(stmt.cond, fEnv)
            IN  IF c.err
                THEN /\ serr' = "condition failed" /\ spc' = "done"
                     /\ UNCHANGED <<fi, fEnv, fExpanded, fNonConst>>
                ELSE IF ~c.ok
                THEN /\ serr' = "condition is not compile-time constant"
                     /\ spc' = "done" /\ fNonConst' = "cond"
                     /\ UNCHANGED <<fi, fEnv, fExpanded>>
                ELSE IF ~c.bool
                THEN /\ serr' = "condition is not boolean expression"
                     /\ spc' = "done"
                     /\ UNCHANGED <<fi, fEnv, fExpanded, fNonConst>>
                ELSE IF ~c.val
                THEN \* Loop completed.
                     /\ spc' = "done"
                     /\ UNCHANGED <<serr, fi, fEnv, fExpanded, fNonConst>>
                ELSE /\ fExpanded' = fExpanded + 1
                     /\ IF stmt.body.failAt = fExpanded + 1
                        THEN /\ serr' = "body failed" /\ spc' = "done"
                             /\ UNCHANGED <<fi, fEnv, fNonConst>>
                        ELSE ForIncrement(IF stmt.body.runtime THEN NonConst
                                          ELSE fEnv)
    /\ UNCHANGED <<stmt, bindings, dead, emitted, merged, exceptSSA>>

(***************************************************************************)
(* ConstantDef.SSA:  const <name> <type> = <init>                          *)
(***************************************************************************)
ConstStmts ==
    {[kind |-> "const", name |-> n, typeOk |-> t, init |-> i, constOk |-> c,
      assignable |-> a] :
        n \in {"x", "k"}, t \in BOOLEAN, i \in ForInits, c \in BOOLEAN,
        a \in BOOLEAN}

\* The outcome of ConstantDef.SSA on a block with bindings b: the error and
\* the bindings of the block afterwards.
ConstantDefResult(st, b) ==
    LET r == EvalInit(st.init)
    IN  IF ~st.typeOk THEN [err |-> "unresolved type", bindings |-> b]
        ELSE IF r.err THEN [err |-> "init failed", bindings |-> b]
        ELSE IF ~r.ok THEN [err |-> "init value is not constant", bindings |-> b]
        ELSE IF ~st.constOk THEN [err |-> "invalid constant", bindings |-> b]
        ELSE IF ~st.assignable THEN [err |-> "invalid init value", bindings |-> b]
        ELSE IF st.name \in DOMAIN b
        THEN [err |-> "constant already defined", bindings |-> b]
        ELSE [err |-> "none",
              bindings |-> (st.name :> <<"const", st.name, ToString(r.val)>>) @@ b]

ConstantDefSSA ==
    /\ spc = "start" /\ stmt.kind = "const"
    /\ LET res == ConstantDefResult(stmt, bindings)
       IN  /\ serr' = res.err
           /\ bindings' = res.bindings
    /\ spc' = "done"
    /\ UNCHANGED <<stmt, dead, fi, fEnv, fExpanded, fNonConst, emitted, merged, exceptSSA>>

(***************************************************************************)
(* If.SSA:  if <cond> { <t> } [else { <f> }]                               *)
(* A branch body assigns x or y, returns, is empty, or fails to compile.   *)
(***************************************************************************)
IfConds == {"true", "false", "constNonBool", "evalError", "runtimeBool",
            "runtimeNonBool", "ssaError", "noValue", "multiValue"}

IfBodies == {"assignX", "assignY", "return", "empty", "error"}

IfStmts ==
    {[kind |-> "if", cond |-> c, hasElse |-> e, t |-> t, f |-> f] :
        c \in IfConds, e \in BOOLEAN, t \in IfBodies, f \in IfBodies}

\* List.SSA of a branch body on a block with bindings b; tag names the branch
\* in the SSA names it creates.
BodySSA(body, b, tag) ==
    CASE body = "assignX" ->
           [err |-> "none", dead |-> FALSE,
            bindings |-> [b EXCEPT !["x"] = <<"var", "x", tag>>]]
      [] body = "assignY" ->
           [err |-> "none", dead |-> FALSE,
            bindings |-> [b EXCEPT !["y"] = <<"var", "y", tag>>]]
      [] body = "return" -> [err |-> "none", dead |-> TRUE, bindings |-> b]
      [] body = "empty"  -> [err |-> "none", dead |-> FALSE, bindings |-> b]
      [] OTHER           -> [err |-> "body failed", dead |-> FALSE, bindings |-> b]

\* Bindings.Merge(cond, other): a phi on cond for each name bound differently.
Merge(cond, t, f) ==
    [n \in DOMAIN t \cap DOMAIN f |->
        IF t[n] = f[n] THEN t[n] ELSE <<"phi", cond, t[n], f[n]>>]

IfError(e, b) ==
    [err |-> e, dead |-> FALSE, bindings |-> b, emitted |-> <<>>, merged |-> <<>>]

\* If.SSA when the condition folded to the constant val.
IfConstant(st, b, val) ==
    IF val
    THEN LET r == BodySSA(st.t, b, "T")
         IN  [err |-> r.err, dead |-> r.dead, bindings |-> r.bindings,
              emitted |-> <<"T">>, merged |-> <<>>]
    ELSE IF st.hasElse
    THEN LET r == BodySSA(st.f, b, "F")
         IN  [err |-> r.err, dead |-> r.dead, bindings |-> r.bindings,
              emitted |-> <<"F">>, merged |-> <<>>]
    ELSE [err |-> "none", dead |-> FALSE, bindings |-> b,
          emitted |-> <<>>, merged |-> <<>>]

\* If.SSA when the condition is the runtime bool value "c".
IfBranch(st, b) ==
    LET t == BodySSA(st.t, b, "T")
        f == BodySSA(st.f, b, "F")
    IN  IF t.err # "none"
        THEN [err |-> t.err, dead |-> FALSE, bindings |-> b,
              emitted |-> <<"T">>, merged |-> <<>>]
        ELSE IF ~st.hasElse
        THEN IF t.dead
             THEN [err |-> "none", dead |-> FALSE, bindings |-> b,
                   emitted |-> <<"T">>, merged |-> <<>>]
             ELSE [err |-> "none", dead |-> FALSE,
                   bindings |-> Merge("c", t.bindings, b),
                   emitted |-> <<"T">>, merged |-> << <<"c", "T", "block">> >>]
        ELSE IF f.err # "none"
        THEN [err |-> f.err, dead |-> FALSE, bindings |-> b,
              emitted |-> <<"T", "F">>, merged |-> <<>>]
        ELSE IF f.dead /\ t.dead
        THEN [err |-> "none", dead |-> TRUE, bindings |-> << >>,
              emitted |-> <<"T", "F">>, merged |-> <<>>]
        ELSE IF f.dead
        THEN [err |-> "none", dead |-> FALSE, bindings |-> t.bindings,
              emitted |-> <<"T", "F">>, merged |-> <<>>]
        ELSE IF t.dead
        THEN [err |-> "none", dead |-> FALSE, bindings |-> f.bindings,
              emitted |-> <<"T", "F">>, merged |-> <<>>]
        ELSE [err |-> "none", dead |-> FALSE,
              bindings |-> Merge("c", t.bindings, f.bindings),
              emitted |-> <<"T", "F">>, merged |-> << <<"c", "T", "F">> >>]

IfResultNoFolding(st, b) ==
    CASE st.cond = "evalError"      -> IfError("condition failed", b)
      [] st.cond = "constNonBool"   -> IfError("condition is not boolean expression", b)
      [] st.cond = "ssaError"       -> IfError("condition failed", b)
      [] st.cond = "noValue"        -> IfError("used as value", b)
      [] st.cond = "multiValue"     -> IfError("multiple-value in single-value context", b)
      [] st.cond = "runtimeNonBool" -> IfError("non-bool used as if condition", b)
      [] OTHER                      -> IfBranch(st, b)

\* The outcome of If.SSA on a block with bindings b.
IfResult(st, b) ==
    CASE st.cond = "evalError"      -> IfError("condition failed", b)
      [] st.cond = "constNonBool"   -> IfError("condition is not boolean expression", b)
      [] st.cond = "true"           -> IfConstant(st, b, TRUE)
      [] st.cond = "false"          -> IfConstant(st, b, FALSE)
      [] st.cond = "ssaError"       -> IfError("condition failed", b)
      [] st.cond = "noValue"        -> IfError("used as value", b)
      [] st.cond = "multiValue"     -> IfError("multiple-value in single-value context", b)
      [] st.cond = "runtimeNonBool" -> IfError("non-bool used as if condition", b)
      [] OTHER                      -> IfBranch(st, b)

IfSSA ==
    /\ spc = "start" /\ stmt.kind = "if"
    /\ LET res == IfResult(stmt, bindings)
       IN  /\ serr' = res.err
           /\ bindings' = res.bindings
           /\ dead' = res.dead
           /\ emitted' = res.emitted
           /\ merged' = res.merged
    /\ spc' = "done"
    /\ UNCHANGED <<stmt, fi, fEnv, fExpanded, fNonConst, exceptSSA>>

SSAInit ==
    /\ stmt \in ForStmts \cup ConstStmts \cup IfStmts
    /\ spc = "start"
    /\ serr = "none"
    /\ bindings = StartBindings
    /\ dead = FALSE
    /\ fi = 0
    /\ fEnv = NonConst
    /\ fExpanded = 0
    /\ fNonConst = "none"
    /\ emitted = <<>>
    /\ merged = <<>>

SSAIdle ==
    /\ stmt = [kind |-> "none"]
    /\ spc = "idle"
    /\ serr = "none"
    /\ bindings = StartBindings
    /\ dead = FALSE
    /\ fi = 0
    /\ fEnv = NonConst
    /\ fExpanded = 0
    /\ fNonConst = "none"
    /\ emitted = <<>>
    /\ merged = <<>>

(***************************************************************************)
(* Package ot: Chou-Orlandi oblivious transfer between the two ends of a   *)
(* pipe, driven as testOT drives it.  The group is the additive group of   *)
(* integers modulo GroupOrder with generator G.                            *)
(***************************************************************************)
G == 1

Points == 0 .. (GroupOrder - 1)

PointAdd(a, b) == (a + b) % GroupOrder

PointSub(a, b) == (a + GroupOrder - b) % GroupOrder

ScalarMult(k, a) == (k * a) % GroupOrder

\* The key derivation H: a point to a key of the width of a label.
H(a) == (3 * a + 1) % LabelMod

\* Messages are encrypted by xor with the key.
OTEncrypt(key, m) == Xor(key, m)

OTDecrypt(key, e) == Xor(key, e)

\* The point R the receiver sends for choice bit c: R = xG + cS.
ReceiverPoint(x, c, s) ==
    IF c THEN PointAdd(ScalarMult(x, G), s) ELSE ScalarMult(x, G)

\* The receiver's key k_c = H(xS).
ReceiverKey(x, s) == H(ScalarMult(x, s))

\* The sender's keys k0 = H(yR) and k1 = H(y(R - S)).
SenderKey0(y, r) == H(ScalarMult(y, r))

SenderKey1(y, r) == H(ScalarMult(y, PointSub(r, ScalarMult(y, G))))

OTInit ==
    /\ otWires \in [0 .. (NumOT - 1) -> [L0 : Labels, L1 : Labels]]
    /\ otFlags \in [0 .. (NumOT - 1) -> BOOLEAN]
    /\ otLabels = [i \in 0 .. (NumOT - 1) |-> Nil]
    /\ spcS = "start" /\ spcR = "start"
    /\ coY = 0 /\ coX = 0 /\ coS = 0
    /\ toR = <<>> /\ toS = <<>>
    /\ sIdx = 0 /\ rIdx = 0
    /\ done = "pending"

OTIdle ==
    /\ otWires = <<>> /\ otFlags = <<>> /\ otLabels = <<>>
    /\ spcS = "idle" /\ spcR = "idle"
    /\ coY = 0 /\ coX = 0 /\ coS = 0
    /\ toR = <<>> /\ toS = <<>>
    /\ sIdx = 0 /\ rIdx = 0
    /\ done = "pending"

InitSender ==
    /\ spcS = "start"
    /\ spcS' = "inited"
    /\ UNCHANGED <<otWires, otFlags, otLabels, spcR, coY, coX, coS, toR, toS,
                   sIdx, rIdx, done, exceptOT>>

\* Send, setup: the sender picks y and sends S = yG.
SendSetup ==
    /\ spcS = "inited"
    /\ \E y \in Points :
         /\ coY' = y
         /\ toR' = Append(toR, ScalarMult(y, G))
    /\ spcS' = "send"
    /\ UNCHANGED <<otWires, otFlags, otLabels, spcR, coX, coS, toS, sIdx, rIdx,
                   done, exceptOT>>

\* Send, one instance: the sender reads R and sends both ciphertexts.
SendWire ==
    /\ spcS = "send" /\ toS # <<>>
    /\ LET r == Head(toS)
           w == otWires[sIdx]
       IN  toR' = Append(toR, <<OTEncrypt(SenderKey0(coY, r), w.L0),
                                OTEncrypt(SenderKey1(coY, r), w.L1)>>)
    /\ toS' = Tail(toS)
    /\ sIdx' = sIdx + 1
    /\ spcS' = IF sIdx + 1 = NumOT THEN "done" ELSE "send"
    /\ UNCHANGED <<otWires, otFlags, otLabels, spcR, coY, coX, coS, rIdx, done,
                   exceptOT>>

InitReceiver ==
    /\ spcR = "start"
    /\ spcR' = "inited"
    /\ UNCHANGED <<otWires, otFlags, otLabels, spcS, coY, coX, coS, toR, toS,
                   sIdx, rIdx, done, exceptOT>>

\* Receive, setup: the receiver reads S.
ReceiveSetup ==
    /\ spcR = "inited" /\ toR # <<>>
    /\ coS' = Head(toR)
    /\ toR' = Tail(toR)
    /\ spcR' = "request"
    /\ UNCHANGED <<otWires, otFlags, otLabels, spcS, coY, coX, toS, sIdx, rIdx,
                   done, exceptOT>>

\* Receive, one instance: the receiver picks x and sends R.
ReceiveRequest ==
    /\ spcR = "request"
    /\ \E x \in Points :
         /\ coX' = x
         /\ toS' = Append(toS, ReceiverPoint(x, otFlags[rIdx], coS))
    /\ spcR' = "response"
    /\ UNCHANGED <<otWires, otFlags, otLabels, spcS, coY, coS, toR, sIdx, rIdx,
                   done, exceptOT>>

\* Receive, one instance: the receiver decrypts the ciphertext of its choice.
ReceiveResponse ==
    /\ spcR = "response" /\ toR # <<>>
    /\ LET e == Head(toR)
           ec == IF otFlags[rIdx] THEN e[2] ELSE e[1]
       IN  otLabels' = [otLabels EXCEPT ![rIdx] = OTDecrypt(ReceiverKey(coX, coS), ec)]
    /\ toR' = Tail(toR)
    /\ rIdx' = rIdx + 1
    /\ spcR' = IF rIdx + 1 = NumOT THEN "check" ELSE "request"
    /\ UNCHANGED <<otWires, otFlags, spcS, coY, coX, coS, toS, sIdx, done,
                   exceptOT>>

ExpectedSwapped(i) == IF otFlags[i] THEN otWires[i].L0 ELSE otWires[i].L1

\* testOT: the label expected at index i.
Expected(i) == IF otFlags[i] THEN otWires[i].L1 ELSE otWires[i].L0

\* testOT: the receiver goroutine compares the labels and reports on done.
CheckLabels ==
    /\ spcR = "check"
    /\ done' = IF \E i \in DOMAIN otFlags : otLabels[i] # Expected(i)
               THEN "label mismatch" ELSE "nil"
    /\ spcR' = "done"
    /\ UNCHANGED <<otWires, otFlags, otLabels, spcS, coY, coX, coS, toR, toS,
                   sIdx, rIdx, exceptOT>>

(***************************************************************************)
(* Call.SSA and Func.SSA: a call is compiled by instantiating the called   *)
(* function in place.  A body is the list of the functions it calls.       *)
(***************************************************************************)
CFuncs == {"main", "f", "g"}

\* The names a body can call; "u" is not defined in the package.
Callees == {"f", "g", "u"}

RECURSIVE CallSeqs(_)
CallSeqs(n) ==
    IF n = 0 THEN {<<>>}
    ELSE CallSeqs(n - 1)
         \cup {Append(q, c) : q \in {b \in CallSeqs(n - 1) : Len(b) = n - 1},
                              c \in Callees}

CallInit ==
    /\ cprog \in [CFuncs -> CallSeqs(MaxCalls)]
    /\ cstack = << [fn |-> "main", pos |-> 1] >>
    /\ cpc = "run"
    /\ cerr = "none"

CallIdle ==
    /\ cprog = <<>>
    /\ cstack = <<>>
    /\ cpc = "idle"
    /\ cerr = "none"

\* The compilation on top of the stack.
Top == cstack[Len(cstack)]

\* ctx.PushCompilation(start, return, caller, called) followed by
\* called.SSA: the call nests one level deeper.
PushCompilation(called) ==
    IF Len(cstack) >= MaxStack
    THEN /\ cpc' = "overflow" /\ UNCHANGED <<cstack, cerr>>
    ELSE /\ cstack' = Append(cstack, [fn |-> called, pos |-> 1])
         /\ UNCHANGED <<cpc, cerr>>

\* Call.SSA up to the instantiation of the called function.
CallSSA ==
    /\ cpc = "run"
    /\ Top.pos <= Len(cprog[Top.fn])
    /\ LET called == cprog[Top.fn][Top.pos]
       IN  IF called \notin DOMAIN cprog
           THEN /\ cerr' = "undefined" /\ cpc' = "done" /\ UNCHANGED cstack
           ELSE PushCompilation(called)
    /\ UNCHANGED <<cprog, exceptCall>>

\* Func.SSA returns at the end of the body; Call.SSA pops the compilation
\* and the caller goes on after the call.
CallReturn ==
    /\ cpc = "run"
    /\ Top.pos > Len(cprog[Top.fn])
    /\ IF Len(cstack) = 1
       THEN cpc' = "done" /\ UNCHANGED cstack
       ELSE /\ cstack' = [SubSeq(cstack, 1, Len(cstack) - 1)
                            EXCEPT ![Len(cstack) - 1].pos = @ + 1]
            /\ UNCHANGED cpc
    /\ UNCHANGED <<cprog, cerr, exceptCall>>

(***************************************************************************)
(* Binary.Eval and Binary.SSA.  int32 and uint64 constants are modelled    *)
(* with IntBits bits; an operand is a constant, a runtime value of         *)
(* integer type, or an expression whose Eval fails.                        *)
(***************************************************************************)
IntModulus == Pow2(IntBits)

IntMin == 0 - Pow2(IntBits - 1)

IntMax == Pow2(IntBits - 1) - 1

UintMax == Pow2(IntBits) - 1

\* Two's complement wrap-around of the signed type.
WrapInt(x) == ((x + Pow2(IntBits - 1) + IntModulus * IntModulus) % IntModulus)
              - Pow2(IntBits - 1)

\* Wrap-around of the unsigned type.
WrapUint(x) == (x + IntModulus * IntModulus) % IntModulus

Abs(x) == IF x < 0 THEN 0 - x ELSE x

\* Go's integer division truncates towards zero.
GoDiv(a, b) ==
    IF (a < 0) = (b < 0) THEN Abs(a) \div Abs(b) ELSE 0 - (Abs(a) \div Abs(b))

GoMod(a, b) == a - GoDiv(a, b) * b

\* Go's >> of a signed integer rounds towards minus infinity.
ShiftRight(a, n) ==
    IF a >= 0 THEN a \div Pow2(n) ELSE 0 - ((Pow2(n) - 1 - a) \div Pow2(n))

BinaryOps == {"*", "/", "%", "<<", ">>", "&", "&^", "+", "-", "|", "^",
              "==", "!=", "<", "<=", ">", ">=", "&&", "||"}

BinaryOperands ==
    {[kind |-> "int32", val |-> v] : v \in IntMin .. IntMax}
    \cup {[kind |-> "uint64", val |-> v] : v \in 0 .. UintMax}
    \cup {[kind |-> "bool", val |-> v] : v \in 0 .. 1}
    \cup {[kind |-> k, val |-> 0] : k \in {"runtime", "error"}}

BinaryExprs ==
    {[op |-> o, left |-> l, right |-> r] :
        o \in BinaryOps, l \in BinaryOperands, r \in BinaryOperands}

\* The results of Eval: a constant, not a constant, an error.
EvalConstant(v, t) == [val |-> v, type |-> t, ok |-> TRUE, err |-> "none"]

EvalNotConstant == [val |-> 0, type |-> "undefined", ok |-> FALSE, err |-> "none"]

EvalError(e) == [val |-> 0, type |-> "undefined", ok |-> FALSE, err |-> e]

BoolValue(b) == IF b THEN 1 ELSE 0

\* The switch on ast.Op for two int32 constants.
EvalInt32(op, lval, rval) ==
    CASE op = "*"  -> EvalConstant(WrapInt(lval * rval), "int32")
      [] op = "/"  -> IF rval = 0 THEN EvalError("integer divide by zero")
                      ELSE EvalConstant(WrapInt(GoDiv(lval, rval)), "int32")
      [] op = "%"  -> IF rval = 0 THEN EvalError("integer divide by zero")
                      ELSE EvalConstant(WrapInt(GoMod(lval, rval)), "int32")
      [] op = "<<" -> IF rval < 0 THEN EvalError("panic: negative shift amount")
                      ELSE EvalConstant(WrapInt(lval * Pow2(rval)), "int32")
      [] op = ">>" -> IF rval < 0 THEN EvalError("panic: negative shift amount")
                      ELSE EvalConstant(ShiftRight(lval, rval), "int32")
      [] op = "+"  -> EvalConstant(WrapInt(lval + rval), "int32")
      [] op = "-"  -> EvalConstant(WrapInt(lval - rval), "int32")
      [] op = "==" -> EvalConstant(BoolValue(lval = rval), "bool")
      [] op = "!=" -> EvalConstant(BoolValue(lval # rval), "bool")
      [] op = "<"  -> EvalConstant(BoolValue(lval < rval), "bool")
      [] op = "<=" -> EvalConstant(BoolValue(lval <= rval), "bool")
      [] op = ">"  -> EvalConstant(BoolValue(lval > rval), "bool")
      [] op = ">=" -> EvalConstant(BoolValue(lval >= rval), "bool")
      [] OTHER     -> EvalError("not implemented yet")

\* The switch on ast.Op for two uint64 constants.
EvalUint64(op, lval, rval) ==
    CASE op = "*"  -> EvalConstant(WrapUint(lval * rval), "uint64")
      [] op = "/"  -> IF rval = 0 THEN EvalError("integer divide by zero")
                      ELSE EvalConstant(lval \div rval, "uint64")
      [] op = "%"  -> IF rval = 0 THEN EvalError("integer divide by zero")
                      ELSE EvalConstant(lval % rval, "uint64")
      [] op = "<<" -> EvalConstant(WrapUint(lval * Pow2(rval)), "uint64")
      [] op = ">>" -> EvalConstant(lval \div Pow2(rval), "uint64")
      [] op = "+"  -> EvalConstant(WrapUint(lval + rval), "uint64")
      [] op = "-"  -> EvalConstant(WrapUint(lval - rval), "uint64")
      [] op = "==" -> EvalConstant(BoolValue(lval = rval), "bool")
      [] op = "!=" -> EvalConstant(BoolValue(lval # rval), "bool")
      [] op = "<"  -> EvalConstant(BoolValue(lval < rval), "bool")
      [] op = "<=" -> EvalConstant(BoolValue(lval <= rval), "bool")
      [] op = ">"  -> EvalConstant(BoolValue(lval > rval), "bool")
      [] op = ">=" -> EvalConstant(BoolValue(lval >= rval), "bool")
      [] OTHER     -> EvalError("not implemented yet")

\* Binary.Eval
BinaryEval(e) ==
    LET l == e.left
        r == e.right
    IN  IF l.kind = "error" THEN EvalError("operand failed")
        ELSE IF l.kind = "runtime" THEN EvalNotConstant
        ELSE IF r.kind = "error" THEN EvalError("operand failed")
        ELSE IF r.kind = "runtime" THEN EvalNotConstant
        ELSE CASE l.kind = "int32" ->
                    IF r.kind = "int32" THEN EvalInt32(e.op, l.val, r.val)
                    ELSE EvalError("invalid r-value")
               [] l.kind = "uint64" ->
                    IF r.kind = "uint64" THEN EvalUint64(e.op, l.val, r.val)
                    ELSE EvalError("invalid r-value")
               [] OTHER -> EvalError("invalid l-value")

\* The type of the variable an operand's SSA returns.
OperandType(o) == IF o.kind = "runtime" THEN "int" ELSE o.kind

\* Variable.TypeCompatible: integer types go together, bool with bool.
TypeCompatible(l, r) ==
    (OperandType(l) = "bool") = (OperandType(r) = "bool")

SSAError(e) == [err |-> e, instrs |-> <<>>, value |-> <<"none", "none", 0>>]

\* Binary.SSA
BinarySSA(e) ==
    LET c == BinaryEval(e)
    IN  IF c.err # "none" THEN SSAError(c.err)
        ELSE IF c.ok
        THEN [err |-> "none", instrs |-> <<>>, value |-> <<"const", c.type, c.val>>]
        ELSE IF e.left.kind = "error" \/ e.right.kind = "error"
        THEN SSAError("operand failed")
        ELSE IF ~TypeCompatible(e.left, e.right)
        THEN SSAError("invalid types")
        ELSE [err |-> "none", instrs |-> << e.op >>, value |-> <<"var", e.op, 0>>]

BinaryInit ==
    /\ bexpr \in BinaryExprs
    /\ bpc = "start"
    /\ bres = EvalNotConstant
    /\ bssa = SSAError("none")

BinaryIdle ==
    /\ bexpr = [op |-> "none"]
    /\ bpc = "idle"
    /\ bres = EvalNotConstant
    /\ bssa = SSAError("none")

\* A call of Binary.Eval on the expression.
BinaryEvalCall ==
    /\ bpc = "start"
    /\ bres' = BinaryEval(bexpr)
    /\ bpc' = "evaluated"
    /\ UNCHANGED <<bexpr, bssa, exceptBinary>>

\* A call of Binary.SSA on the expression.
BinarySSACall ==
    /\ bpc = "start"
    /\ bssa' = BinarySSA(bexpr)
    /\ bpc' = "compiled"
    /\ UNCHANGED <<bexpr, bres, exceptBinary>>

(***************************************************************************)
(* Package circuits: the constructors of the divider and the comparators.  *)
(* A wire is named by the place that created it, a vector of wires is a    *)
(* function on 0 .. n-1 with the least significant bit at 0, and a         *)
(* constructor yields the gates it adds to the compiler, in order.         *)
(***************************************************************************)
Width(w) == Cardinality(DOMAIN w)

NewWires(name, n) == [i \in 0 .. n - 1 |-> <<name, i, 0>>]

NewBinary(op, a, b, o) == [op |-> op, a |-> a, b |-> b, o |-> o]

NewINV(i, o) == [op |-> "INV", a |-> i, b |-> i, o |-> o]

\* Compiler.ZeroWire: the gate that drives the shared zero wire.
ZeroWire(in0) == NewBinary("XOR", in0, in0, <<"zeroWire", 0, 0>>)

\* Compiler.Zero and Compiler.One drive the wire o with a constant.
Zero(in0, o) == NewBinary("XOR", in0, in0, o)

One(in0, o) == NewBinary("XNOR", in0, in0, o)

\* Compiler.ZeroPad: both vectors at the width of the wider one, and the
\* gates added on the way.
ZeroPad(in0, x, y) ==
    LET max == IF Width(y) > Width(x) THEN Width(y) ELSE Width(x)
        Pad(w) == [i \in 0 .. max - 1 |->
                      IF i < Width(w) THEN w[i] ELSE <<"zeroWire", 0, 0>>]
    IN  IF Width(x) = Width(y)
        THEN [x |-> x, y |-> y, gates |-> <<>>]
        ELSE [x |-> Pad(x), y |-> Pad(y), gates |-> <<ZeroWire(in0)>>]

\* The concatenation of a sequence of gate lists.
RECURSIVE Flatten(_)
Flatten(ss) == IF ss = <<>> THEN <<>> ELSE Head(ss) \o Flatten(Tail(ss))

\* NewFullAdder: s = a xor b xor cin, cout = majority(a, b, cin), with four
\* XOR gates and one AND gate; tag names the adder's inner wires.
NewFullAdder(a, b, cin, s, cout, tag) ==
    LET w1 == <<"fa1", tag[1], tag[2]>>
        w2 == <<"fa2", tag[1], tag[2]>>
        w3 == <<"fa3", tag[1], tag[2]>>
    IN  << NewBinary("XOR", a, cin, w1),
           NewBinary("XOR", b, cin, w2),
           NewBinary("XOR", a, w2, s),
           NewBinary("AND", w1, w2, w3),
           NewBinary("XOR", cin, w3, cout) >>

\* NewMux on one-wire vectors: out = t when cond = 1 and f when cond = 0,
\* computed as ((f xor t) and cond) xor f.
NewMux(cond, t, f, out, tag) ==
    LET w1 == <<"mux1", tag[1], tag[2]>>
        w2 == <<"mux2", tag[1], tag[2]>>
    IN  << NewBinary("XOR", f, t, w1),
           NewBinary("AND", w1, cond, w2),
           NewBinary("XOR", w2, f, out) >>

\* A quotient bit taken through one inverter only.
DividerQuotientInverted(cIn, q, n, y) ==
    IF n - 1 - y < Width(q) THEN << NewINV(cIn, q[n - 1 - y]) >> ELSE <<>>

\* NewDivider, "Quotient y": q{len(a)-1-y} is the carry out of row y,
\* through two inverters.
DividerQuotient(cIn, q, n, y) ==
    IF n - 1 - y < Width(q)
    THEN << NewINV(cIn, <<"qw", y, 0>>), NewINV(<<"qw", y, 0>>, q[n - 1 - y]) >>
    ELSE <<>>

\* NewDivider: restoring long division, one row of adders and multiplexers
\* for every bit of a, from the most significant bit down.
NewDivider(in0, a0, b0, q, r) ==
    LET pad  == ZeroPad(in0, a0, b0)
        a    == pad.x
        b    == pad.y
        n    == Width(a)
        m    == Width(b)
        bINV == NewWires("bINV", m)
        \* rOut[x] as row y leaves it (row -1: the initial zero wires).
        RowOut(y, x) ==
            IF y < 0 THEN <<"rOut", x, 0>>
            ELSE IF y + 1 >= n /\ x < Width(r) THEN r[x]
            ELSE <<"ro", y, x>>
        RIn(y, x) == IF x = 0 THEN a[n - 1 - y] ELSE RowOut(y - 1, x - 1)
        CIn(y, x) == IF x = 0 THEN <<"cIn", y, 0>> ELSE <<"co", y, x - 1>>
        Adder(y, x) ==
            LET bw == IF x < m THEN bINV[x] ELSE <<"bw", y, 0>>
            IN  (IF x < m THEN <<>> ELSE <<One(in0, bw)>>)
                \o NewFullAdder(RIn(y, x), bw, CIn(y, x),
                                <<"sum", y, x>>, <<"co", y, x>>, <<y, x>>)
        Mux(y, x) == NewMux(CIn(y, m + 1), <<"sum", y, x>>, RIn(y, x),
                            RowOut(y, x), <<y, x>>)
        Row(y) ==
            <<One(in0, <<"cIn", y, 0>>)>>
            \o Flatten([k \in 1 .. m + 1 |-> Adder(y, k - 1)])
            \o DividerQuotient(CIn(y, m + 1), q, n, y)
            \o Flatten([k \in 1 .. m + 1 |-> Mux(y, m + 1 - k)])
    IN  pad.gates
        \o [k \in 1 .. m |-> NewINV(b[k - 1], bINV[k - 1])]
        \o [k \in 1 .. m |-> Zero(in0, <<"rOut", k - 1, 0>>)]
        \o Flatten([k \in 1 .. n |-> Row(k - 1)])

\* A half comparator with its operands exchanged: bout = a and (not b).
NewHalfGtComparator(a, b, bout) ==
    << NewINV(b, <<"w1", 0, 0>>), NewBinary("AND", <<"w1", 0, 0>>, a, bout) >>

\* NewHalfLtComparator: bout = (not a) and b.
NewHalfLtComparator(a, b, bout) ==
    << NewINV(a, <<"w1", 0, 0>>), NewBinary("AND", <<"w1", 0, 0>>, b, bout) >>

\* NewFullLtComparator: bout = ((not a) and b) or (bin and not (a xor b)).
NewFullLtComparator(a, b, bin, bout, i) ==
    << NewBinary("XOR", a, b, <<"w3", i, 0>>),
       NewINV(a, <<"w4", i, 0>>),
       NewBinary("AND", b, <<"w4", i, 0>>, <<"w5", i, 0>>),
       NewINV(<<"w3", i, 0>>, <<"w6", i, 0>>),
       NewBinary("AND", bin, <<"w6", i, 0>>, <<"w7", i, 0>>),
       NewBinary("OR", <<"w5", i, 0>>, <<"w7", i, 0>>, bout) >>

\* NewLtComparator: r[0] = x < y, a half comparator on bit 0 and a chain of
\* full comparators above it; an error unless r is one wire.
NewLtComparator(in0, x0, y0, r) ==
    LET pad == ZeroPad(in0, x0, y0)
        x   == pad.x
        y   == pad.y
        n   == Width(x)
        Bout(i) == IF i + 1 >= n THEN r[0] ELSE <<"bout", i, 0>>
    IN  IF Width(r) # 1 THEN [gates |-> pad.gates, err |-> TRUE]
        ELSE IF n = 1
        THEN [gates |-> pad.gates \o NewHalfLtComparator(x[0], y[0], r[0]),
              err |-> FALSE]
        ELSE [gates |-> pad.gates
                        \o NewHalfLtComparator(x[0], y[0], Bout(0))
                        \o Flatten([i \in 1 .. n - 1 |->
                               NewFullLtComparator(x[i], y[i], Bout(i - 1),
                                                   Bout(i), i)]),
              err |-> FALSE]

\* NewLeComparator: r[0] = not (y < x); an error unless r is one wire.
NewLeComparator(in0, x0, y0, r) ==
    LET pad == ZeroPad(in0, x0, y0)
        w   == <<"w", 0, 0>>
        lt  == NewLtComparator(in0, pad.y, pad.x, [i \in {0} |-> w])
    IN  IF Width(r) # 1 THEN [gates |-> pad.gates, err |-> TRUE]
        ELSE IF lt.err THEN [gates |-> pad.gates \o lt.gates, err |-> TRUE]
        ELSE [gates |-> pad.gates \o lt.gates \o <<NewINV(w, r[0])>>,
              err |-> FALSE]

\* Bit i of the natural number v.
Bit(v, i) == (v \div Pow2(i)) % 2

\* The natural number on the wires w under vals.
RECURSIVE Value(_, _, _)
Value(w, vals, i) ==
    IF i >= Width(w) THEN 0 ELSE vals[w[i]] * Pow2(i) + Value(w, vals, i + 1)

\* The value of every wire once the gates lo .. hi were computed in order,
\* from the values vals of the wires before them.  The range is halved, and
\* the first half is computed before the second half is entered, to keep
\* the evaluation shallow; the order is that of the list.
RECURSIVE Compute(_, _, _, _)
Compute(gates, lo, hi, vals) ==
    IF lo > hi THEN vals
    ELSE IF lo = hi
    THEN LET g == gates[lo]
         IN  (g.o :> GateValue(g.op, vals[g.a], vals[g.b])) @@ vals
    ELSE LET mid   == (lo + hi) \div 2
             first == Compute(gates, lo, mid, vals)
         IN  IF gates[mid].o \in DOMAIN first
             THEN Compute(gates, mid + 1, hi, first)
             ELSE first

TKinds == {"div", "lt", "le"}

TX == NewWires("x", tnx)
TY == NewWires("y", tny)
TQ == NewWires("q", IF tnx > tny THEN tnx ELSE tny)
TR == NewWires("r", IF tkind = "div" THEN Width(TQ) ELSE tnr)

\* The input wires carry the bits of tx and ty.
TInputs ==
    [w \in {TX[i] : i \in DOMAIN TX} \cup {TY[i] : i \in DOMAIN TY} |->
        IF w[1] = "x" THEN Bit(tx, w[2]) ELSE Bit(ty, w[2])]

BuilderInit ==
    /\ tkind \in TKinds
    /\ tnx \in 1 .. MaxWidth
    /\ tny \in 1 .. MaxWidth
    /\ tnr \in IF tkind = "div" THEN {1} ELSE 0 .. MaxResultWires
    /\ tx \in 0 .. Pow2(tnx) - 1
    /\ ty \in 0 .. Pow2(tny) - 1
    /\ tpc = "start"
    /\ tgates = <<>>
    /\ terr = FALSE
    /\ tvals = <<>>

BuilderIdle ==
    /\ tkind = "lt" /\ tnx = 1 /\ tny = 1 /\ tnr = 1 /\ tx = 0 /\ ty = 0
    /\ tpc = "done" /\ tgates = <<>> /\ terr = FALSE /\ tvals = <<>>

Built(res) ==
    /\ tpc = "start"
    /\ tgates' = res.gates
    /\ terr' = res.err
    /\ tpc' = IF res.err THEN "done" ELSE "built"
    /\ UNCHANGED <<tkind, tnx, tny, tnr, tx, ty, tvals, exceptBuilder>>

NewDividerCall ==
    /\ tkind = "div"
    /\ Built([gates |-> NewDivider(TX[0], TX, TY, TQ, TR), err |-> FALSE])

NewLtComparatorCall ==
    /\ tkind = "lt"
    /\ Built(NewLtComparator(TX[0], TX, TY, TR))

NewLeComparatorCall ==
    /\ tkind = "le"
    /\ Built(NewLeComparator(TX[0], TX, TY, TR))

\* The circuit is run on the inputs.
ComputeCall ==
    /\ tpc = "built"
    /\ tvals' = Compute(tgates, 1, Len(tgates), TInputs)
    /\ tpc' = "done"
    /\ UNCHANGED <<tkind, tnx, tny, tnr, tx, ty, tgates, terr, exceptBuilder>>

(***************************************************************************)
(* Return.SSA, If.SSA, Call.SSA and Func.SSA on blocks.  An SSA value is   *)
(* the term that defines it: an argument of main, a constant, a binary     *)
(* instruction on two values, or a phi on a condition.  A block is a       *)
(* record of its Next and Branch blocks (0: none), its BranchCond, its     *)
(* Dead flag and its bindings; the generator's blocks are a sequence and   *)
(* a block is named by its index.                                          *)
(***************************************************************************)
VarRef(n) == [k |-> "var", n |-> n]
Constant(v) == [k |-> "const", v |-> v]
Binary(op, l, r) == [k |-> "bin", op |-> op, l |-> l, r |-> r]
Call(f, exprs) == [k |-> "call", f |-> f, exprs |-> exprs]
Return(exprs) == [k |-> "return", exprs |-> exprs]
If(expr, true) == [k |-> "if", expr |-> expr, true |-> true]
Func(args, nret, body) == [args |-> args, nret |-> nret, body |-> body]

AGtB == Binary(">", VarRef("a"), VarRef("b"))
Add1 == Func(<<"val">>, 1, <<Return(<<Binary("+", VarRef("val"), Constant(1))>>)>>)
Add2 ==
    Func(<<"val">>, 1,
         <<Return(<<Call("add1", <<Call("add1", <<VarRef("val")>>)>>)>>)>>)

\* The programs of fixedTests, and one with a nested if.
Programs ==
    [max |->
       [main |-> Func(<<"a", "b">>, 1,
                      <<If(AGtB, <<Return(<<VarRef("a")>>)>>),
                        Return(<<VarRef("b")>>)>>)],
     add1 |->
       [main |-> Func(<<"a", "b">>, 1,
                      <<If(AGtB, <<Return(<<Call("add1", <<VarRef("a")>>)>>)>>),
                        Return(<<Call("add1", <<VarRef("b")>>)>>)>>),
        add1 |-> Add1],
     add2 |->
       [main |-> Func(<<"a", "b">>, 1,
                      <<If(AGtB, <<Return(<<Call("add2", <<VarRef("a")>>)>>)>>),
                        Return(<<Call("add2", <<VarRef("b")>>)>>)>>),
        add1 |-> Add1,
        add2 |-> Add2],
     minmax |->
       [main |-> Func(<<"a", "b">>, 1,
                      <<Return(<<Call("Sum2",
                           <<Call("MinMax", <<VarRef("a"), VarRef("b")>>)>>)>>)>>),
        Sum2 |-> Func(<<"a", "b">>, 1,
                      <<Return(<<Binary("+", VarRef("a"), VarRef("b"))>>)>>),
        MinMax |-> Func(<<"a", "b">>, 2,
                        <<If(AGtB, <<Return(<<VarRef("b"), VarRef("a")>>)>>),
                          Return(<<VarRef("a"), VarRef("b")>>)>>)],
     nested |->
       [main |-> Func(<<"a", "b">>, 1,
                      <<If(AGtB,
                           <<If(Binary(">", VarRef("a"), Constant(2)),
                                <<Return(<<VarRef("a")>>)>>)>>),
                        Return(<<VarRef("b")>>)>>)]]

\* The name of return value idx (Func.SSA: "%ret<idx>", idx from 0).
RetName(i) == <<"%ret0", "%ret1">>[i]

Phi(cond, t, f) == [k |-> "phi", cond |-> cond, t |-> t, f |-> f]

\* Generator.Block, and Block.Bindings.Clone for the bindings handed in.
NewBlock(bind) ==
    [next |-> 0, branch |-> 0, cond |-> Constant(0), dead |-> FALSE,
     bind |-> bind]

\* Bindings.Merge: a phi on cond for every name bound on both sides.
BindingsMerge(cond, t, f) ==
    [n \in DOMAIN t \cap DOMAIN f |-> Phi(cond, t[n], f[n])]

\* What an SSA method returns: the generator's blocks, the block to go on
\* with, the values, and whether it failed.
Result(st, b, vals, err) == [st |-> st, b |-> b, vals |-> vals, err |-> err]

Failed == Result(<<>>, 0, <<>>, TRUE)

\* Block.ReturnBinding: the value of name where the control reaches
\* retBlock from block b: a phi on BranchCond of the values along Branch
\* and along Next.
RECURSIVE ReturnBinding(_, _, _, _)
ReturnBinding(st, b, name, retBlock) ==
    IF st[b].branch # 0
    THEN Phi(st[b].cond,
             ReturnBinding(st, st[b].branch, name, retBlock),
             ReturnBinding(st, st[b].next, name, retBlock))
    ELSE IF st[b].next # 0 /\ st[b].next # retBlock
    THEN ReturnBinding(st, st[b].next, name, retBlock)
    ELSE st[b].bind[name]

\* The values handed to a call or a return with want parameters: one
\* expression may give all of them, several give one each.
SingleValues(values, want) ==
    IF Len(values) = 0
    THEN [vals |-> <<>>, err |-> want # 0]
    ELSE IF Len(values) = 1
    THEN [vals |-> values[1], err |-> Len(values[1]) # want]
    ELSE [vals |-> [i \in 1 .. Len(values) |->
                      IF Len(values[i]) = 1 THEN values[i][1] ELSE Constant(0)],
          err |-> \/ Len(values) # want
                  \/ \E i \in 1 .. Len(values) : Len(values[i]) # 1]

\* A returning block that is left alive.
ReturnBlockAlive(block, bound, ret) ==
    [block EXCEPT !.bind = bound, !.next = ret]

\* The end of Return.SSA: the return variables are bound in the block,
\* which goes on at the return block of the function and is dead.
ReturnBlock(block, bound, ret) ==
    [block EXCEPT !.bind = bound, !.next = ret, !.dead = TRUE]

RECURSIVE SSAExpr(_, _, _, _, _)
RECURSIVE SSAExprs(_, _, _, _, _, _, _)
RECURSIVE SSACall(_, _, _, _, _)
RECURSIVE SSAFunc(_, _, _, _, _)
RECURSIVE SSAList(_, _, _, _, _, _)
RECURSIVE SSAIf(_, _, _, _, _)
RECURSIVE SSAReturn(_, _, _, _, _)

\* F applied to the value of x, which is computed once.
Bind(x, F(_)) == CHOOSE r \in {F(v) : v \in {x}} : TRUE

\* VariableRef.SSA, Constant.SSA, Binary.SSA and Call.SSA by kind of
\* expression; fr is the compilation on top of the stack.
SSAExpr(prog, e, b, fr, st) ==
    CASE e.k = "var" ->
           IF e.n \in DOMAIN st[b].bind
           THEN Result(st, b, <<st[b].bind[e.n]>>, FALSE)
           ELSE Failed
      [] e.k = "const" -> Result(st, b, <<e>>, FALSE)
      [] e.k = "bin" ->
           Bind(SSAExpr(prog, e.l, b, fr, st), LAMBDA l :
             IF l.err THEN Failed
             ELSE Bind(SSAExpr(prog, e.r, l.b, fr, l.st), LAMBDA r :
               IF r.err THEN Failed
               ELSE IF Len(l.vals) # 1 \/ Len(r.vals) # 1 THEN Failed
               ELSE Result(r.st, r.b,
                           <<Binary(e.op, l.vals[1], r.vals[1])>>, FALSE)))
      [] e.k = "call" -> SSACall(prog, e, b, fr, st)

\* The loop over the expressions of a call or a return: the values of
\* expression i and after are appended to acc.
SSAExprs(prog, exprs, i, b, fr, st, acc) ==
    IF i > Len(exprs) THEN Result(st, b, acc, FALSE)
    ELSE Bind(SSAExpr(prog, exprs[i], b, fr, st), LAMBDA v :
           IF v.err THEN Failed
           ELSE SSAExprs(prog, exprs, i + 1, v.b, fr, v.st,
                         Append(acc, v.vals)))

\* Call.SSA: the called function is instantiated between the block of the
\* call and a new return block.
SSACall(prog, e, b, fr, st) ==
    Bind(SSAExprs(prog, e.exprs, 1, b, fr, st, <<>>), LAMBDA cv :
      IF cv.err THEN Failed
      ELSE IF e.f \notin DOMAIN prog THEN Failed
      ELSE
      LET called == prog[e.f]
          args   == SingleValues(cv.vals, Len(called.args))
          rblock == Len(cv.st) + 1
          start  == Len(cv.st) + 2
          ret    == Len(cv.st) + 3
          defined == [n \in {called.args[i] : i \in 1 .. Len(called.args)}
                        |-> args.vals[CHOOSE i \in 1 .. Len(called.args) :
                                          called.args[i] = n]]
          st1    == cv.st \o << NewBlock(cv.st[cv.b].bind),
                                 NewBlock(defined),
                                 NewBlock([n \in {} |-> 0]) >>
      IN  IF args.err THEN Failed
          ELSE Bind(SSAFunc(prog, e.f, start,
                            [start |-> start, ret |-> ret, fn |-> e.f,
                             caller |-> TRUE], st1), LAMBDA f :
                 IF f.err THEN Failed
                 ELSE Result([f.st EXCEPT ![cv.b].next = start,
                                          ![ret].next = rblock],
                             rblock, f.vals, FALSE)))

\* Func.SSA: the return variables are defined, the body is compiled, and
\* the return values are selected from the start block.
SSAFunc(prog, name, b, fr, st) ==
    LET fn   == prog[name]
        st1  == [st EXCEPT ![b].bind =
                    [n \in {RetName(i) : i \in 1 .. fn.nret} |-> Constant(0)]
                    @@ @]
    IN  Bind(SSAList(prog, fn.body, 1, b, fr, st1), LAMBDA body :
          IF body.err THEN Failed
          ELSE Result(body.st, body.b,
                      [i \in 1 .. fn.nret |->
                          ReturnBinding(body.st, fr.start, RetName(i), fr.ret)],
                      FALSE))

\* List.SSA from statement i: it stops at a dead block.
SSAList(prog, list, i, b, fr, st) ==
    IF i > Len(list) \/ st[b].dead THEN Result(st, b, <<>>, FALSE)
    ELSE Bind(IF list[i].k = "if"
              THEN SSAIf(prog, list[i], b, fr, st)
              ELSE SSAReturn(prog, list[i], b, fr, st), LAMBDA s :
           IF s.err THEN Failed
           ELSE SSAList(prog, list, i + 1, s.b, fr, s.st))

\* If.SSA without an else branch.
SSAIf(prog, ast, b, fr, st) ==
    IF ast.expr.k = "const"
    THEN IF ast.expr.v = 1 THEN SSAList(prog, ast.true, 1, b, fr, st)
         ELSE Result(st, b, <<>>, FALSE)
    ELSE
    Bind(SSAExpr(prog, ast.expr, b, fr, st), LAMBDA e :
      IF e.err THEN Failed
      ELSE IF Len(e.vals) # 1 THEN Failed
      ELSE
      LET block  == e.b
          tBlock == Len(e.st) + 1
          st1    == Append([e.st EXCEPT ![block].cond = e.vals[1],
                                        ![block].branch = tBlock],
                           NewBlock(e.st[block].bind))
      IN  Bind(SSAList(prog, ast.true, 1, tBlock, fr, st1), LAMBDA t :
            IF t.err THEN Failed
            ELSE IF t.st[t.b].dead
            THEN Result(Append([t.st EXCEPT ![block].next = Len(t.st) + 1],
                               NewBlock(t.st[block].bind)),
                        Len(t.st) + 1, <<>>, FALSE)
            ELSE Result([t.st EXCEPT
                            ![t.b].bind = BindingsMerge(e.vals[1], @,
                                                        t.st[block].bind),
                            ![block].next = t.b],
                        t.b, <<>>, FALSE)))

\* Return.SSA: the values are moved to the return variables of the
\* function, the block goes on at the return block and is dead.
SSAReturn(prog, ast, b, fr, st) ==
    Bind(SSAExprs(prog, ast.exprs, 1, b, fr, st, <<>>), LAMBDA rv :
      IF rv.err THEN Failed
      ELSE
      LET result == SingleValues(rv.vals, prog[fr.fn].nret)
          rets   == {RetName(i) : i \in 1 .. prog[fr.fn].nret}
          bound  == [n \in DOMAIN rv.st[rv.b].bind \cup rets |->
                        IF n \in rets
                        THEN result.vals[CHOOSE i \in 1 .. prog[fr.fn].nret :
                                             RetName(i) = n]
                        ELSE rv.st[rv.b].bind[n]]
      IN  IF result.err THEN Failed
          ELSE Result([rv.st EXCEPT ![rv.b] = ReturnBlock(@, bound, fr.ret)],
                      rv.b, <<>>, FALSE))

\* Compiler.Compile: main is instantiated on the first block, with its
\* arguments bound to the inputs of the circuit.
Compile(prog) ==
    SSAFunc(prog, "main", 1,
            [start |-> 1, ret |-> 2, fn |-> "main", caller |-> FALSE],
            << NewBlock([n \in {"a", "b"} |-> [k |-> "arg", n |-> n]]),
               NewBlock([n \in {} |-> 0]) >>)

WordModulus == Pow2(WordBits)

\* The value of an SSA value on the inputs in: what the circuit of its
\* instruction computes.
RECURSIVE TermValue(_, _)
TermValue(t, in) ==
    CASE t.k = "arg" -> in[t.n]
      [] t.k = "const" -> t.v
      [] t.k = "bin" ->
           LET l == TermValue(t.l, in)
               r == TermValue(t.r, in)
           IN  IF t.op = "+" THEN (l + r) % WordModulus
               ELSE IF l > r THEN 1 ELSE 0
      [] t.k = "phi" ->
           IF TermValue(t.cond, in) = 1 THEN TermValue(t.t, in)
           ELSE TermValue(t.f, in)

RetInit ==
    /\ rprog \in DOMAIN Programs
    /\ rin \in [{"a", "b"} -> 0 .. MaxInput]
    /\ rpc = "start"
    /\ rblocks = <<>>
    /\ rvals = <<>>
    /\ rerr = FALSE
    /\ rout = <<>>

RetIdle ==
    /\ rprog = "max" /\ rin = [n \in {"a", "b"} |-> 0] /\ rpc = "done"
    /\ rblocks = <<>> /\ rvals = <<>> /\ rerr = FALSE /\ rout = <<>>

CompileCall ==
    /\ rpc = "start"
    /\ LET res == Compile(Programs[rprog])
       IN  /\ rerr' = res.err
           /\ rblocks' = res.st
           /\ rvals' = res.vals
           /\ rpc' = IF res.err THEN "done" ELSE "compiled"
    /\ UNCHANGED <<rprog, rin, rout, exceptRet>>

\* Circuit.Compute on the compiled program.
RetComputeCall ==
    /\ rpc = "compiled"
    /\ rout' = [i \in 1 .. Len(rvals) |-> TermValue(rvals[i], rin)]
    /\ rpc' = "done"
    /\ UNCHANGED <<rprog, rin, rblocks, rvals, rerr, exceptRet>>

(***************************************************************************)
(* Compiler.Prune and Compiler.Compile.  The wires are numbered in the     *)
(* order of their creation: the inputs 0 .. NumInputs-1, then the output   *)
(* wire of every gate; a gate is named by its output wire.  The builder    *)
(* hands a gate wires that exist, so that the gates are created in         *)
(* topological order.  The ID of a wire is Unassigned until Compile gives  *)
(* it one.                                                                 *)
(***************************************************************************)
Unassigned == -1

BuiltGatesAt(k) ==
    { NewBinary("AND", a, b, NumInputs + k - 1) :
        a \in 0 .. (NumInputs + k - 2), b \in 0 .. (NumInputs + k - 2) }
    \cup
    { NewINV(a, NumInputs + k - 1) : a \in 0 .. (NumInputs + k - 2) }

RECURSIVE BuiltGateLists(_)
BuiltGateLists(n) ==
    IF n = 0 THEN {<<>>}
    ELSE {Append(s, g) : s \in BuiltGateLists(n - 1), g \in BuiltGatesAt(n)}

\* The input wires of a gate: A and B, or A alone for INV.
InputWires(g) == IF g.op = "INV" THEN <<g.a>> ELSE <<g.a, g.b>>

\* Wire.AddOutput in NewBinary and NewINV: NumOutputs of wire w once the
\* gates were created.
InitialNumOutputs(gates, w) ==
    Cardinality({ <<k, i>> \in (1 .. Len(gates)) \X (1 .. 2) :
                    i <= Len(InputWires(gates[k])) /\ InputWires(gates[k])[i] = w })

\* Gate.Prune: a gate whose output wire is no output of the circuit and
\* has no consumer left is dead, and is removed from the outputs of its
\* input wires (Wire.RemoveOutput).  s holds num, dead and the gates kept.
GatePrune(g, s) ==
    IF g.o \in s.dead \/ g.o \in kout \/ s.num[g.o] > 0
    THEN [s EXCEPT !.kept = <<g>> \o @]
    ELSE [s EXCEPT !.dead = @ \cup {g.o},
                   !.num = [w \in DOMAIN @ |->
                              @[w] - Cardinality({i \in 1 .. Len(InputWires(g)) :
                                                     InputWires(g)[i] = w})]]

\* A loop over the gates from the first gate to the last.
RECURSIVE PruneForward(_, _, _)
PruneForward(gates, i, s) ==
    IF i < 1 THEN s
    ELSE LET t == GatePrune(gates[Len(gates) + 1 - i], [s EXCEPT !.kept = <<>>])
         IN  PruneForward(gates, i - 1, [t EXCEPT !.kept = s.kept \o @])

\* The loop of Compiler.Prune, from the last gate to the first.
RECURSIVE PruneFrom(_, _, _)
PruneFrom(gates, i, s) ==
    IF i < 1 THEN s ELSE PruneFrom(gates, i - 1, GatePrune(gates[i], s))

\* Wire.Outputs: the gates that were created with w as an input.
WireOutputs(w) ==
    SelectSeq(kall, LAMBDA g : \E i \in 1 .. Len(InputWires(g)) :
                                  InputWires(g)[i] = w)

RECURSIVE VisitAll(_, _, _)
\* Gate.Visit on the gates gs from position i: a gate that is not dead,
\* not visited and has all its inputs assigned is appended to pending.
VisitAll(gs, i, s) ==
    IF i > Len(gs) THEN s
    ELSE LET g == gs[i]
             ready == /\ g.o \notin kdead
                      /\ g.o \notin s.visited
                      /\ \A j \in 1 .. Len(InputWires(g)) :
                            s.id[InputWires(g)[j]] # Unassigned
         IN  VisitAll(gs, i + 1,
                      IF ready
                      THEN [s EXCEPT !.visited = @ \cup {g.o},
                                     !.pending = Append(@, g)]
                      ELSE s)

\* Wire.Assign: an output of the circuit is left alone; another wire gets
\* the next ID unless it has one, and the gates it feeds are visited.
WireAssign(w, s) ==
    IF w \in kout THEN s
    ELSE VisitAll(WireOutputs(w), 1,
                  IF s.id[w] = Unassigned
                  THEN [s EXCEPT !.id[w] = s.nextWireID,
                                 !.nextWireID = @ + 1]
                  ELSE s)

RECURSIVE AssignInputs(_, _)
AssignInputs(w, s) ==
    IF w >= NumInputs THEN s ELSE AssignInputs(w + 1, WireAssign(w, s))

\* A loop over pending that puts a gate in front of the assigned gates.
RECURSIVE AssignPendingReversed(_)
AssignPendingReversed(s) ==
    IF s.pending = <<>> THEN s
    ELSE LET gate == Head(s.pending)
             s1   == [s EXCEPT !.pending = Tail(@)]
         IN  AssignPendingReversed(
                 IF gate.o \in kdead THEN s1
                 ELSE [WireAssign(gate.o, s1) EXCEPT
                          !.assigned = <<gate>> \o @])

\* The loop over pending, with Gate.Assign: the output wire of a gate
\* that is not dead is assigned and the gate is appended to assigned.
RECURSIVE AssignPending(_)
AssignPending(s) ==
    IF s.pending = <<>> THEN s
    ELSE LET gate == Head(s.pending)
             s1   == [s EXCEPT !.pending = Tail(@)]
         IN  AssignPending(
                 IF gate.o \in kdead THEN s1
                 ELSE [WireAssign(gate.o, s1) EXCEPT
                          !.assigned = Append(@, gate)])

\* "Assign outputs": the outputs get the next IDs, in the order of
\* Compiler.Outputs.
RECURSIVE AssignOutputs(_, _)
AssignOutputs(w, s) ==
    IF w >= NumInputs + Len(kall) THEN s
    ELSE AssignOutputs(w + 1,
             IF w \in kout
             THEN [s EXCEPT !.id[w] = s.nextWireID, !.nextWireID = @ + 1]
             ELSE s)

\* Compiler.Compile: the circuit of the assigned gates, after Gate.Compile.
Compiled ==
    LET s == AssignOutputs(0,
                 AssignPending(
                     AssignInputs(0,
                         [id |-> [w \in 0 .. NumInputs + Len(kall) - 1 |->
                                     Unassigned],
                          nextWireID |-> 0, visited |-> {},
                          pending |-> <<>>, assigned |-> <<>>])))
    IN  [NumGates |-> Len(s.assigned),
         NumWires |-> s.nextWireID,
         Inputs   |-> [w \in 0 .. NumInputs - 1 |-> s.id[w]],
         Gates    |-> [k \in 1 .. Len(s.assigned) |->
                         [Op |-> s.assigned[k].op,
                          Input0 |-> s.id[s.assigned[k].a],
                          Input1 |-> s.id[s.assigned[k].b],
                          Output |-> s.id[s.assigned[k].o]]]]

NoCircuit == [NumGates |-> 0, NumWires |-> 0, Inputs |-> <<>>, Gates |-> <<>>]

CompInit ==
    /\ kall \in UNION {BuiltGateLists(n) : n \in 1 .. MaxBuiltGates}
    /\ kgates = kall
    /\ kout \in SUBSET (0 .. NumInputs + Len(kall) - 1)
    /\ knum = [w \in 0 .. NumInputs + Len(kall) - 1 |->
                  InitialNumOutputs(kall, w)]
    /\ kdead = {}
    /\ kprunes = <<>>
    /\ kbefore = <<>>
    /\ kpc = "built"
    /\ kcirc = NoCircuit

CompIdle ==
    /\ kall = <<>> /\ kgates = <<>> /\ kout = {} /\ knum = <<>> /\ kdead = {}
    /\ kprunes = <<>> /\ kbefore = <<>> /\ kpc = "compiled" /\ kcirc = NoCircuit

\* Compiler.Prune
Prune ==
    /\ kpc = "built"
    /\ Len(kprunes) < MaxPrunes
    /\ LET s == PruneFrom(kgates, Len(kgates),
                          [num |-> knum, dead |-> kdead, kept |-> <<>>])
       IN  /\ kgates' = s.kept
           /\ knum' = s.num
           /\ kdead' = s.dead
           /\ kprunes' = Append(kprunes, Len(kgates) - Len(s.kept))
    /\ kbefore' = kgates
    /\ UNCHANGED <<kall, kout, kpc, kcirc, exceptComp>>

\* Compiler.Compile
CompileGates ==
    /\ kpc = "built"
    /\ kcirc' = Compiled
    /\ kpc' = "compiled"
    /\ UNCHANGED <<kall, kgates, kout, knum, kdead, kprunes, kbefore,
                   exceptComp>>

(***************************************************************************)
(* Index.SSA, the index case of Assign.SSA, and Slice.SSA.  An index or a  *)
(* bound is a constant, a runtime value, or (a bound of a slice) left out. *)
(***************************************************************************)
IndexValues == (0 - MaxBits - 1) .. (MaxBits + 2)

NoBound == [k |-> "nil", v |-> 0]

Indices == [k : {"const", "runtime"}, v : IndexValues]

\* What the method returns and adds to the block.
Compiles(instr) == [err |-> "", instrs |-> <<instr>>]
Fails(err) == [err |-> err, instrs |-> <<>>]

\* Index.SSA on an array of size elements of bits bits.
IndexSSA(size, bits, index) ==
    IF index.k # "const" THEN Fails("invalid index")
    ELSE IF index.v < 0 \/ index.v >= size THEN Fails("invalid array index")
    ELSE Compiles([op |-> "slice", from |-> index.v * bits,
                   to |-> (index.v + 1) * bits, bits |-> bits])

\* Assign.SSA with an Index as the l-value.
AssignIndexSSA(size, bits, index) ==
    IF index.k # "const" THEN Fails("invalid index")
    ELSE IF index.v >= size THEN Fails("invalid array index")
    ELSE Compiles([op |-> "amov", from |-> index.v * bits,
                   to |-> (index.v + 1) * bits, bits |-> size * bits])

\* Slice.SSA on a value of bits bits.
SliceSSA(bits, from, to) ==
    IF from.k = "runtime" THEN Fails("invalid from index")
    ELSE IF to.k = "runtime" THEN Fails("invalid to index")
    ELSE LET f == IF from.k = "nil" THEN 0 ELSE from.v
             t == IF to.k = "nil" THEN bits ELSE to.v
         IN  IF f >= bits \/ f >= t THEN Fails("slice bounds out of range")
             ELSE Compiles([op |-> "slice", from |-> f, to |-> t,
                            bits |-> t - f])

IdxInit ==
    /\ xkind \in {"index", "assign", "slice"}
    /\ xbits \in 1 .. MaxBits
    /\ xsize \in IF xkind = "slice" THEN {1} ELSE 1 .. MaxArraySize
    /\ xfrom \in IF xkind = "slice" THEN Indices \cup {NoBound} ELSE Indices
    /\ xto \in IF xkind = "slice" THEN Indices \cup {NoBound} ELSE {NoBound}
    /\ xpc = "start"
    /\ xerr = ""
    /\ xinstr = <<>>

IdxIdle ==
    /\ xkind = "index" /\ xbits = 1 /\ xsize = 1 /\ xfrom = NoBound
    /\ xto = NoBound /\ xpc = "done" /\ xerr = "" /\ xinstr = <<>>

Returns(res) ==
    /\ xpc = "start"
    /\ xerr' = res.err
    /\ xinstr' = res.instrs
    /\ xpc' = "done"
    /\ UNCHANGED <<xkind, xbits, xsize, xfrom, xto, exceptIdx>>

IndexSSACall == xkind = "index" /\ Returns(IndexSSA(xsize, xbits, xfrom))

AssignIndexSSACall ==
    xkind = "assign" /\ Returns(AssignIndexSSA(xsize, xbits, xfrom))

SliceSSACall == xkind = "slice" /\ Returns(SliceSSA(xbits, xfrom, xto))

(***************************************************************************)
(* apps/garbled/main.go: main.  The operations main calls (compileFiles,   *)
(* the stream modes, circuit.Parse, CompileFile, IOArg.Parse, bmrMode,     *)
(* evaluatorMode, garblerMode) succeed or fail as dfail says; profiling is *)
(* off.  Returning from main ends the process with exit code 0, os.Exit(1) *)
(* and log.Fatal end it with exit code 1.                                  *)
(***************************************************************************)
DriverFlags ==
    [compile : BOOLEAN, stream : BOOLEAN, evaluator : BOOLEAN,
     bmr : (0 - 1) .. MaxParties]

DriverFails == {"none", "compile", "stream", "load", "input", "session"}

\* The process ends with exit code code after printing msg.
Exit(code, msg) ==
    /\ dpc' = "exited"
    /\ dexit' = code
    /\ dout' = msg
    /\ UNCHANGED <<dflags, dnargs, dfile, dnin, dfail, exceptDriver>>

\* main goes on at position pc.
Goto(pc) ==
    /\ dpc' = pc
    /\ UNCHANGED <<dflags, dnargs, dfile, dnin, dfail, dexit, dout,
                   exceptDriver>>

DriverInit ==
    /\ dflags \in DriverFlags
    /\ dnargs \in 0 .. 2
    /\ dfile \in {"circ", "mpcl", "other"}
    /\ dnin \in 1 .. MaxParties
    /\ dfail \in DriverFails
    /\ dpc = "start"
    /\ dexit = 0
    /\ dout = ""

DriverIdle ==
    /\ dflags = [compile |-> FALSE, stream |-> FALSE, evaluator |-> FALSE,
                 bmr |-> 0 - 1]
    /\ dnargs = 1 /\ dfile = "circ" /\ dnin = 2 /\ dfail = "none"
    /\ dpc = "exited" /\ dexit = 0 /\ dout = ""

\* if *compile || *ssa
MainCompile ==
    /\ dpc = "start"
    /\ dflags.compile
    /\ IF dfail = "compile" THEN Exit(1, "compile failed") ELSE Exit(0, "")

\* if *stream
MainStream ==
    /\ dpc = "start"
    /\ ~dflags.compile /\ dflags.stream
    /\ IF dfail = "stream" THEN Exit(1, "stream failed") ELSE Exit(0, "")

\* if len(flag.Args()) != 1
MainArgs ==
    /\ dpc = "start"
    /\ ~dflags.compile /\ ~dflags.stream
    /\ IF dnargs # 1 THEN Exit(1, "expected one input file")
       ELSE Goto("load")

\* The circuit is parsed or compiled from the file; the three failures
\* print their message and return from main.
MainLoad ==
    /\ dpc = "load"
    /\ IF dfile = "circ"
       THEN IF dfail = "load" THEN Exit(0, "failed to parse circuit file")
            ELSE Goto("run")
       ELSE IF dfile = "mpcl"
       THEN IF dfail = "load" THEN Exit(0, "compile error")
            ELSE Goto("run")
       ELSE Exit(0, "unknown file type")

\* if *bmr >= 0
MainBMR ==
    /\ dpc = "run"
    /\ dflags.bmr >= 0
    /\ IF dflags.bmr >= dnin THEN Exit(0, "invalid party number")
       ELSE IF dfail = "input" THEN Exit(1, "input error")
       ELSE IF dfail = "session" THEN Exit(1, "BMR mode failed")
       ELSE Exit(0, "")

\* The two-party computation, as the evaluator or as the garbler.
MainTwoParty ==
    /\ dpc = "run"
    /\ dflags.bmr < 0
    /\ IF dnin # 2 THEN Exit(0, "invalid circuit for 2-party computation")
       ELSE IF dfail = "input" THEN Exit(1, "input error")
       ELSE IF dfail = "session" THEN Exit(1, "session error")
       ELSE Exit(0, "")

(***************************************************************************)
(* lexer.go and parser.go.  A text is a sequence of characters, a Point is *)
(* a record of Line (from 1) and Col (from 0), and an error is a record of *)
(* the parts of its message: the input name and the point before the first *)
(* two colons (each left out where the message has none) and the rest.     *)
(* The reader is in memory, so that its only error is io.EOF.              *)
(***************************************************************************)
NoError == [name |-> "", point |-> <<>>, msg |-> ""]

\* io.EOF
EOF == [name |-> "", point |-> <<>>, msg |-> "EOF"]

NilToken == [Type |-> "nil", From |-> <<>>, To |-> <<>>, StrVal |-> <<>>]

IsSpace(r) == r \in {" ", "\n"}
IsDigit(r) == r \in {"2", "3"}
IsLetter(r) ==
    r \in {"a", "b", "c", "e", "f", "g", "i", "k", "m", "n", "p", "t", "u"}

\* The keywords.  T_SymPackage, which the parser asks for, is not among the
\* symbols of lexer.go; it is taken to be the token of "package".
symbols(symbol) ==
    IF symbol = <<"f", "u", "n", "c">> THEN "func"
    ELSE IF symbol = <<"r", "e", "t", "u", "r", "n">> THEN "return"
    ELSE IF symbol = <<"p", "a", "c", "k", "a", "g", "e">> THEN "package"
    ELSE ""

RECURSIVE AllDigits(_)
AllDigits(s) == s = <<>> \/ (IsDigit(Head(s)) /\ AllDigits(Tail(s)))

\* reType: ^(int|float)([[:digit:]]*)$
reType(symbol) ==
    \/ /\ Len(symbol) >= 3
       /\ SubSeq(symbol, 1, 3) = <<"i", "n", "t">>
       /\ AllDigits(SubSeq(symbol, 4, Len(symbol)))
    \/ /\ Len(symbol) >= 5
       /\ SubSeq(symbol, 1, 5) = <<"f", "l", "o", "a", "t">>
       /\ AllDigits(SubSeq(symbol, 6, Len(symbol)))

NewLexer ==
    [pos |-> 0, point |-> [Line |-> 1, Col |-> 0],
     tokenStart |-> [Line |-> 1, Col |-> 0], ungot |-> <<>>,
     unread |-> FALSE, unreadRune |-> "",
     unreadPoint |-> [Line |-> 1, Col |-> 0]]

ReadRune(text, l) ==
    IF l.unread
    THEN [l |-> [l EXCEPT !.point = l.unreadPoint, !.unreadPoint = l.point,
                          !.unread = FALSE],
          r |-> l.unreadRune, err |-> NoError]
    ELSE IF l.pos >= Len(text) THEN [l |-> l, r |-> "", err |-> EOF]
    ELSE LET r == text[l.pos + 1]
         IN  [l |-> [l EXCEPT !.pos = @ + 1, !.unreadPoint = l.point,
                              !.point = IF r = "\n"
                                        THEN [Line |-> @.Line + 1, Col |-> 0]
                                        ELSE [Line |-> @.Line,
                                              Col |-> @.Col + 1]],
              r |-> r, err |-> NoError]

UnreadRune(l, r) ==
    [l EXCEPT !.point = l.unreadPoint, !.unreadPoint = l.point,
              !.unreadRune = r, !.unread = TRUE]

Token(l, t) ==
    [Type |-> t, From |-> <<l.tokenStart>>, To |-> <<l.point>>,
     StrVal |-> <<>>]

\* What Get returns, with the lexer it leaves.
GotToken(l, tok) == [l |-> l, tok |-> tok, err |-> NoError]
GotError(l, err) == [l |-> l, tok |-> NilToken, err |-> err]

\* The rest of a  //  comment, up to the end of the line.
RECURSIVE SkipComment(_, _)
SkipComment(text, l) ==
    Bind(ReadRune(text, l), LAMBDA rr :
        IF rr.err # NoError \/ rr.r = "\n" THEN rr
        ELSE SkipComment(text, rr.l))

\* The letters and digits of a symbol after its first letter.
RECURSIVE ReadSymbol(_, _, _)
ReadSymbol(text, l, symbol) ==
    Bind(ReadRune(text, l), LAMBDA rr :
        IF rr.err # NoError THEN [l |-> rr.l, symbol |-> symbol]
        ELSE IF ~IsLetter(rr.r) /\ ~IsDigit(rr.r)
        THEN [l |-> UnreadRune(rr.l, rr.r), symbol |-> symbol]
        ELSE ReadSymbol(text, rr.l, Append(symbol, rr.r)))

SymbolToken(l, symbol) ==
    IF symbols(symbol) # "" THEN Token(l, symbols(symbol))
    ELSE IF reType(symbol)
    THEN [Token(l, "type") EXCEPT !.StrVal = symbol]
    ELSE [Token(l, "identifier") EXCEPT !.StrVal = symbol]

\* One or two characters of an operator: first, first first or first =.
Operator(text, l, one, two, eq) ==
    Bind(ReadRune(text, l), LAMBDA rr :
        IF rr.err # NoError THEN GotToken(rr.l, Token(rr.l, one))
        ELSE IF rr.r = one THEN GotToken(rr.l, Token(rr.l, two))
        ELSE IF rr.r = "=" THEN GotToken(rr.l, Token(rr.l, eq))
        ELSE Bind(UnreadRune(rr.l, rr.r), LAMBDA u :
                 GotToken(u, Token(u, one))))

\* The loop of Lexer.Get.
RECURSIVE Scan(_, _)
Scan(text, l0) ==
    Bind(ReadRune(text, [l0 EXCEPT !.tokenStart = l0.point]), LAMBDA rr :
        IF rr.err # NoError THEN GotError(rr.l, rr.err)
        ELSE IF IsSpace(rr.r) THEN Scan(text, rr.l)
        ELSE IF rr.r = "+" THEN Operator(text, rr.l, "+", "++", "+=")
        ELSE IF rr.r = "/"
        THEN Bind(ReadRune(text, rr.l), LAMBDA r2 :
                 IF r2.err # NoError THEN GotToken(r2.l, Token(r2.l, "/"))
                 ELSE IF r2.r = "/"
                 THEN Bind(SkipComment(text, r2.l), LAMBDA c :
                          IF c.err # NoError THEN GotError(c.l, c.err)
                          ELSE Scan(text, c.l))
                 ELSE IF r2.r = "=" THEN GotToken(r2.l, Token(r2.l, "/="))
                 ELSE Bind(UnreadRune(r2.l, r2.r), LAMBDA u :
                          GotToken(u, Token(u, "/"))))
        ELSE IF rr.r \in {"(", ")", "{", "}", ","}
        THEN GotToken(rr.l, Token(rr.l, rr.r))
        ELSE IF IsLetter(rr.r)
        THEN Bind(ReadSymbol(text, rr.l, <<rr.r>>), LAMBDA s :
                 GotToken(s.l, SymbolToken(s.l, s.symbol)))
        ELSE Bind(UnreadRune(rr.l, rr.r), LAMBDA u :
                 GotError(u, [name |-> "", point |-> <<u.point>>,
                              msg |-> "unexpected character"])))

Get(text, l) ==
    IF l.ungot # <<>>
    THEN GotToken([l EXCEPT !.ungot = <<>>], l.ungot[1])
    ELSE Scan(text, l)

Unget(l, t) == [l EXCEPT !.ungot = <<t>>]

\* Parser.err: inputName:line:col: msg
ParserErr(inputName, offending, msg) ==
    [name |-> inputName, point |-> offending.From, msg |-> msg]

needToken(p, l, tt) ==
    Bind(Get(p.text, l), LAMBDA g :
        IF g.err # NoError THEN g
        ELSE IF g.tok.Type # tt
        THEN GotError(Unget(g.l, g.tok),
                      ParserErr(p.inputName, g.tok, "unexpected token"))
        ELSE g)

\* What a parse function returns: a value, an error, or a panic of the
\* process (a nil token is dereferenced).
Parsed(l, v) == [l |-> l, v |-> v, err |-> NoError, panic |-> FALSE]
ParseError(l, err) == [l |-> l, v |-> <<>>, err |-> err, panic |-> FALSE]
Panic(l) == [l |-> l, v |-> <<>>, err |-> NoError, panic |-> TRUE]

parsePackage(p, l) ==
    Bind(needToken(p, l, "package"), LAMBDA t1 :
        IF t1.err # NoError THEN ParseError(t1.l, t1.err)
        ELSE Bind(needToken(p, t1.l, "identifier"), LAMBDA t2 :
                 IF t2.err # NoError THEN ParseError(t2.l, t2.err)
                 ELSE Parsed(t2.l, t2.tok.StrVal)))

parseBlock(p, l) ==
    Bind(Get(p.text, l), LAMBDA g :
        IF g.err # NoError THEN ParseError(g.l, g.err)
        ELSE IF g.tok.Type = "}" THEN Parsed(g.l, <<>>)
        ELSE ParseError(g.l, [name |-> "", point |-> <<>>,
                              msg |-> "parseBlock not implemented yet"]))

\* The loop over the arguments; g holds the token t, n the arguments so far.
RECURSIVE parseArguments(_, _, _)
parseArguments(p, g, n) ==
    IF g.tok.Type # "identifier"
    THEN ParseError(g.l, ParserErr(p.inputName, g.tok, "unexpected token"))
    ELSE Bind(Get(p.text, g.l), LAMBDA g1 :
        IF g1.err # NoError THEN ParseError(g1.l, g1.err)
        ELSE Bind(IF g1.tok.Type = "type" THEN Get(p.text, g1.l) ELSE g1,
                  LAMBDA g2 :
            IF g2.err # NoError THEN ParseError(g2.l, g2.err)
            ELSE IF g2.tok.Type = ")" THEN Parsed(g2.l, n + 1)
            ELSE IF g2.tok.Type # ","
            THEN ParseError(g2.l, ParserErr(p.inputName, g2.tok,
                                            "unexpected token"))
            ELSE Bind(Get(p.text, g2.l), LAMBDA g3 :
                     IF g3.err # NoError THEN ParseError(g3.l, g3.err)
                     ELSE parseArguments(p, g3, n + 1))))

\* The loop over the return values in parentheses.  The error of the Get
\* after a type is not tested before the token is used.
RECURSIVE parseReturnValues(_, _, _)
parseReturnValues(p, l, n) ==
    Bind(needToken(p, l, "type"), LAMBDA t :
        IF t.err # NoError THEN ParseError(t.l, t.err)
        ELSE Bind(Get(p.text, t.l), LAMBDA g :
                 IF g.err # NoError THEN Panic(g.l)
                 ELSE IF g.tok.Type = ")" THEN Parsed(g.l, n + 1)
                 ELSE IF g.tok.Type # ","
                 THEN ParseError(g.l, ParserErr(p.inputName, g.tok,
                                                "unexpected token"))
                 ELSE parseReturnValues(p, g.l, n + 1)))

\* parseFunc from the return values on.
parseFuncBody(p, l, name, nargs) ==
    Bind(Get(p.text, l), LAMBDA g :
        IF g.err # NoError THEN ParseError(g.l, g.err)
        ELSE Bind(IF g.tok.Type = "(" THEN parseReturnValues(p, g.l, 0)
                  ELSE IF g.tok.Type = "type" THEN Parsed(g.l, 1)
                  ELSE Parsed(Unget(g.l, g.tok), 0),
                  LAMBDA rv :
            IF rv.err # NoError \/ rv.panic THEN rv
            ELSE Bind(Get(p.text, rv.l), LAMBDA b :
                IF b.err # NoError THEN ParseError(b.l, b.err)
                ELSE IF b.tok.Type # "{"
                THEN ParseError(b.l, ParserErr(p.inputName, b.tok,
                                               "unexpected token"))
                ELSE Bind(parseBlock(p, b.l), LAMBDA body :
                         IF body.err # NoError THEN body
                         ELSE Parsed(body.l, [Name |-> name, Args |-> nargs,
                                              Return |-> rv.v])))))

parseFunc(p, l) ==
    Bind(needToken(p, l, "identifier"), LAMBDA name :
        IF name.err # NoError THEN ParseError(name.l, name.err)
        ELSE Bind(needToken(p, name.l, "("), LAMBDA lp :
            IF lp.err # NoError THEN ParseError(lp.l, lp.err)
            ELSE Bind(Get(p.text, lp.l), LAMBDA t :
                IF t.err # NoError THEN ParseError(t.l, t.err)
                ELSE Bind(IF t.tok.Type # ")"
                          THEN parseArguments(p, t, 0)
                          ELSE Parsed(t.l, 0),
                          LAMBDA args :
                         IF args.err # NoError THEN args
                         ELSE parseFuncBody(p, args.l, name.tok.StrVal,
                                            args.v)))))

parseToplevel(p, l) ==
    Bind(Get(p.text, l), LAMBDA g :
        IF g.err # NoError THEN ParseError(g.l, g.err)
        ELSE IF g.tok.Type = "func"
        THEN Bind(parseFunc(p, g.l), LAMBDA f :
                 IF f.err # NoError \/ f.panic THEN f
                 ELSE Parsed(f.l, <<f.v>>))
        ELSE ParseError(g.l, ParserErr(p.inputName, g.tok,
                                       "unexpected token")))

\* Parser.Parse on a new parser of the text.
Parse(p) ==
    Bind(parsePackage(p, NewLexer), LAMBDA pkg :
        IF pkg.err # NoError THEN [pkg EXCEPT !.l = 0]
        ELSE Bind(parseToplevel(p, pkg.l), LAMBDA ast :
                 IF ast.panic THEN [ast EXCEPT !.l = 0]
                 ELSE IF ast.err # NoError /\ ast.err # EOF
                 THEN [ast EXCEPT !.l = 0]
                 ELSE [l |-> 0, v |-> <<pkg.v, ast.v>>, err |-> NoError,
                       panic |-> FALSE]))

\* The texts: a well-formed text cut after some of its words, then up to
\* MaxTail more words.
WellFormed1 ==
    <<<<"p", "a", "c", "k", "a", "g", "e">>, <<" ">>, <<"m", "a", "i", "n">>,
      <<"\n">>, <<"f", "u", "n", "c">>, <<" ">>, <<"m">>, <<"(">>, <<"a">>,
      <<" ">>, <<"i", "n", "t", "3", "2">>, <<",">>, <<"b">>, <<")">>,
      <<" ">>, <<"i", "n", "t", "3", "2">>, <<" ">>, <<"{">>, <<"}">>>>

WellFormed2 ==
    <<<<"p", "a", "c", "k", "a", "g", "e">>, <<" ">>, <<"m", "a", "i", "n">>,
      <<"\n">>, <<"f", "u", "n", "c">>, <<" ">>, <<"m">>, <<"(">>, <<")">>,
      <<" ">>, <<"(">>, <<"i", "n", "t", "3", "2">>, <<",">>,
      <<"i", "n", "t", "3", "2">>, <<")">>, <<"{">>, <<"}">>>>

Words ==
    {<<"f", "u", "n", "c">>,
     <<"m">>,
     <<"i", "n", "t", "3", "2">>,
     <<"(">>,
     <<")">>,
     <<"{">>,
     <<"}">>,
     <<",">>,
     <<"+">>,
     <<"/">>,
     <<"=">>,
     <<" ">>,
     <<"\n">>,
     <<"#">>}

RECURSIVE Concat(_)
Concat(ws) == IF ws = <<>> THEN <<>> ELSE Head(ws) \o Concat(Tail(ws))

WordSeqs(n) == UNION {[1 .. k -> Words] : k \in 0 .. n}

Texts(n) ==
    UNION {{Concat(SubSeq(w, 1, k)) \o Concat(t) :
               k \in 0 .. Len(w), t \in WordSeqs(n)} :
           w \in {WellFormed1, WellFormed2}}

InputName == "main.mpcl"

ParserInit ==
    /\ ptext \in Texts(MaxTail)
    /\ ppc = "start"
    /\ pres = Parsed(0, <<>>)

ParserIdle ==
    /\ ptext = <<>>
    /\ ppc = "done"
    /\ pres = Parsed(0, <<>>)

ParseCall ==
    /\ ppc = "start"
    /\ pres' = Parse([inputName |-> InputName, text |-> ptext])
    /\ ppc' = "done"
    /\ UNCHANGED <<ptext, exceptParser>>

(***************************************************************************)
(* apps/garbled/main.go: evaluatorMode.  A connection is named by its      *)
(* number in the order of acceptance; a session (circuit.Evaluator) ends   *)
(* with nil, with io.EOF or with another error.                            *)
(***************************************************************************)
SessionErrors == {"", "EOF", "session error"}

\* A test of the error that takes io.EOF for a failure.
SessionFailedAny(err) == err # ""

\* if err != nil && err != io.EOF
SessionFailed(err) == err # "" /\ err # "EOF"

ServeInit ==
    /\ vonce \in BOOLEAN
    /\ vpc = "listen"
    /\ vopen = {}
    /\ verr = ""
    /\ vlog = <<>>
    /\ vret = ""

ServeIdle ==
    /\ vonce = FALSE /\ vpc = "returned" /\ vopen = {} /\ verr = ""
    /\ vlog = <<>> /\ vret = ""

\* evaluatorMode returns err.
ServeReturn(err) ==
    /\ vpc' = "returned"
    /\ vret' = err

\* net.Listen
Listen ==
    /\ vpc = "listen"
    /\ \E ok \in BOOLEAN :
           IF ok THEN vpc' = "accept" /\ vret' = vret
           ELSE ServeReturn("listen error")
    /\ UNCHANGED <<vonce, vopen, verr, vlog, exceptServe>>

\* ln.Accept
Accept ==
    /\ vpc = "accept"
    /\ Len(vlog) < MaxSessions
    /\ \E ok \in BOOLEAN :
           IF ok
           THEN /\ vopen' = vopen \cup {Len(vlog) + 1}
                /\ vpc' = "session"
                /\ vret' = vret
           ELSE ServeReturn("accept error") /\ vopen' = vopen
    /\ UNCHANGED <<vonce, verr, vlog, exceptServe>>

\* circuit.Evaluator on the connection
Evaluator ==
    /\ vpc = "session"
    /\ \E err \in SessionErrors :
           /\ verr' = err
           /\ vlog' = Append(vlog, err)
    /\ vpc' = "close"
    /\ UNCHANGED <<vonce, vopen, vret, exceptServe>>

\* conn.Close, the test of the error, printResults and the test of once
CloseSession ==
    /\ vpc = "close"
    /\ vopen' = vopen \ {Len(vlog)}
    /\ IF SessionFailed(verr) THEN ServeReturn(verr)
       ELSE IF vonce THEN ServeReturn("")
       ELSE vpc' = "accept" /\ vret' = vret
    /\ UNCHANGED <<vonce, verr, vlog, exceptServe>>

(***************************************************************************)
(* Compiler.ShiftLeft.  A slice of wires is a function on 0 .. n-1; an     *)
(* assignment to an index outside the slice panics.                        *)
(***************************************************************************)
NilWire == <<"nil", 0, 0>>

TheZeroWire == <<"zeroWire", 0, 0>>

\* make([]*Wire, size)
MakeWires(size) == [i \in 0 .. size - 1 |-> NilWire]

\* copy(dst[from:], src)
CopyAt(dst, from, src) ==
    [i \in DOMAIN dst |->
        IF i >= from /\ i - from < Width(src) THEN src[i - from] ELSE dst[i]]

IndexOutOfRange == [panic |-> TRUE, wires |-> <<>>]

\* for i := from; i < to; i++ { result[i] = c.ZeroWire() }
RECURSIVE SetZeroWires(_, _, _)
SetZeroWires(result, from, to) ==
    IF from >= to THEN result
    ELSE IF result.panic \/ from \notin DOMAIN result.wires
    THEN IndexOutOfRange
    ELSE SetZeroWires([result EXCEPT !.wires[from] = TheZeroWire],
                      from + 1, to)

ShiftLeft(w, size, count) ==
    LET made   == MakeWires(size)
        copied == IF count < size THEN CopyAt(made, count, w) ELSE made
        low    == SetZeroWires([panic |-> FALSE, wires |-> copied], 0, count)
    IN  SetZeroWires(low, count + Width(w), size)

ShiftInit ==
    /\ hw \in {NewWires("w", n) : n \in 0 .. MaxWidth}
    /\ hsize \in 0 .. MaxWidth + 1
    /\ hcount \in 0 .. MaxWidth + 2
    /\ hpc = "start"
    /\ hres = [panic |-> FALSE, wires |-> <<>>]

ShiftIdle ==
    /\ hw = <<>> /\ hsize = 0 /\ hcount = 0 /\ hpc = "done"
    /\ hres = [panic |-> FALSE, wires |-> <<>>]

ShiftLeftCall ==
    /\ hpc = "start"
    /\ hres' = ShiftLeft(hw, hsize, hcount)
    /\ hpc' = "done"
    /\ UNCHANGED <<hw, hsize, hcount, exceptShift>>

(***************************************************************************)
(* bmr/player.go: Player.offlinePhase.  A bmr.Label is a value of          *)
(* ShareBits bits with Xor as for the labels of package ot; NewLabel and   *)
(* rand.Int draw any value and do not fail.  lambda is the big.Int of the  *)
(* permutation bits, a natural number.  The circuit has one input per      *)
(* player: wire 0 for player 0, the other input wires for player 1.        *)
(***************************************************************************)
Shares == 0 .. (Pow2(ShareBits) - 1)

\* input.Type.Bits of every input of the circuit
InputBits == <<1, NumInputs - 1>>

\* SetCircuit: the circuit has one input per player.
NumPlayers == Len(InputBits)

\* big.Int.Bit
LambdaBit(x, i) == (x \div Pow2(i)) % 2

\* big.Int.SetBit
SetBit(x, i, b) == x - LambdaBit(x, i) * Pow2(i) + b * Pow2(i)

\* The bits from to from + n - 1 of x set to 0.
RECURSIVE ClearBits(_, _, _)
ClearBits(x, from, n) ==
    IF n = 0 THEN x ELSE ClearBits(SetBit(x, from, 0), from + 1, n - 1)

\* The lambdas of the inputs of the other players set to 0, from input id on.
RECURSIVE ClearPeerInputs(_, _, _, _)
ClearPeerInputs(lambda, me, id, inputIndex) ==
    IF id > Len(InputBits) THEN lambda
    ELSE ClearPeerInputs(IF id - 1 # me
                         THEN ClearBits(lambda, inputIndex, InputBits[id])
                         ELSE lambda,
                         me, id + 1, inputIndex + InputBits[id])

\* Step 3 for a gate that keeps the 1-label of its output wire.
PatchGateKeepL1(g, r, st) ==
    IF g.op # "XOR" THEN st
    ELSE [lambda |-> SetBit(st.lambda, g.out,
                            (LambdaBit(st.lambda, g.in0)
                             + LambdaBit(st.lambda, g.in1)) % 2),
          wires |-> [st.wires EXCEPT ![g.out].L0 =
                        Xor(st.wires[g.in0].L0, st.wires[g.in1].L0)]]

\* Step 3 for one gate: the permutation bit and the labels of the output
\* wire of an XOR gate.
PatchGate(g, r, st) ==
    IF g.op # "XOR" THEN st
    ELSE LET l0 == Xor(st.wires[g.in0].L0, st.wires[g.in1].L0)
         IN  [lambda |-> SetBit(st.lambda, g.out,
                                (LambdaBit(st.lambda, g.in0)
                                 + LambdaBit(st.lambda, g.in1)) % 2),
              wires |-> [st.wires EXCEPT ![g.out] =
                            [L0 |-> l0, L1 |-> Xor(l0, r)]]]

RECURSIVE PatchGates(_, _, _, _)
PatchGates(gates, i, r, st) ==
    IF i > Len(gates) THEN st
    ELSE PatchGates(gates, i + 1, r, PatchGate(gates[i], r, st))

NoOffline == [err |-> "", r |-> <<>>, lambda |-> 0, wires |-> <<>>]

\* offlinePhase of player id with the peers at the indices peers, where
\* NewLabel draws r and l0[i] and rand.Int draws lambda0.
offlinePhase(c, id, peers, r, lambda0, l0) ==
    IF Cardinality(peers) # NumPlayers - 1
    THEN [NoOffline EXCEPT !.err = "invalid number of peers"]
    ELSE LET lambda == ClearPeerInputs(lambda0, id, 1, 0)
             wires == [i \in 0 .. c.NumWires - 1 |->
                          [L0 |-> l0[i], L1 |-> Xor(l0[i], r)]]
             st == PatchGates(c.Gates, 1, r,
                              [lambda |-> lambda, wires |-> wires])
         IN  [err |-> "", r |-> <<r>>, lambda |-> st.lambda,
              wires |-> st.wires]

\* The circuits of XOR and AND gates.
PlayerCircuits(m) ==
    {c \in Circuits(m) :
        \A k \in 1 .. Len(c.Gates) : c.Gates[k].op \in {"XOR", "AND"}}

PlayerInit ==
    /\ yc \in PlayerCircuits(MaxGates)
    /\ yid \in 0 .. NumPlayers - 1
    /\ ypeers \in SUBSET (0 .. NumPlayers - 1)
    /\ ypc = "start"
    /\ yres = NoOffline

PlayerIdle ==
    /\ yc = [NumWires |-> 0, Gates |-> <<>>]
    /\ yid = 0 /\ ypeers = {} /\ ypc = "done" /\ yres = NoOffline

OfflinePhase ==
    /\ ypc = "start"
    /\ \E r \in Shares, lambda0 \in 0 .. (Pow2(yc.NumWires) - 2),
          l0 \in [0 .. yc.NumWires - 1 -> Shares] :
           yres' = offlinePhase(yc, yid, ypeers, r, lambda0, l0)
    /\ ypc' = "done"
    /\ UNCHANGED <<yc, yid, ypeers, exceptPlayer>>

(***************************************************************************)
(* p2p/network.go: two Networks, 0 and 1, each with its accept loop (a     *)
(* goroutine) and a caller of AddPeer for the other network.  A connection *)
(* is named by the network that dialled it; it records whether the id of   *)
(* the dialler was flushed, whether the listener accepted it, which ends   *)
(* sent their public key and which ends closed it.  A step is what a       *)
(* goroutine does under nw.m or between two blocking calls.                *)
(***************************************************************************)
Nets == {0, 1}

Other(n) == 1 - n

NoPeer ==
    [present |-> FALSE, conn |-> 0, client |-> FALSE, otSender |-> FALSE,
     otReceiver |-> FALSE]

NoConn ==
    [dialled |-> FALSE, idSent |-> FALSE, accepted |-> FALSE,
     keySent |-> {}, closed |-> {}]

\* A test that takes no peer for connected.
NeverConnected(n, id) == FALSE

\* peer, ok := nw.Peers[id]; if ok
AlreadyConnected(n, id) == npeers[n][id].present

\* Network.newPeer of network n up to the call of peer.init: a connection
\* for a peer that is present is closed, else the Peer is stored.
newPeer(n, client, c, id) ==
    IF AlreadyConnected(n, id)
    THEN /\ nconn' = [nconn EXCEPT ![c].closed = @ \cup {n}]
         /\ npeers' = npeers
    ELSE /\ npeers' = [npeers EXCEPT ![n][id] =
                          [present |-> TRUE, conn |-> c, client |-> client,
                           otSender |-> FALSE, otReceiver |-> FALSE]]
         /\ nconn' = nconn

\* Peer.init up to the wait for the goroutine: the sender is made and its
\* public key is sent and flushed.
initSend(n, c, id) ==
    /\ npeers' = [npeers EXCEPT ![n][id].otSender = TRUE]
    /\ nconn' = [nconn EXCEPT ![c].keySent = @ \cup {n}]

\* The goroutine of Peer.init has the public key of the peer, or the
\* error of a receive on a connection the peer closed.
initReady(n, c) ==
    Other(n) \in nconn[c].keySent \/ Other(n) \in nconn[c].closed

\* return <-finished
initFinish(n, c, id) ==
    /\ initReady(n, c)
    /\ npeers' = [npeers EXCEPT ![n][id].otReceiver =
                     Other(n) \in nconn[c].keySent]
    /\ nconn' = nconn

NetInit ==
    /\ npeers = [n \in Nets |-> [id \in Nets |-> NoPeer]]
    /\ nconn = [d \in Nets |-> NoConn]
    /\ napc = [n \in Nets |-> "idle"]
    /\ nlpc = [n \in Nets |-> "accept"]

NetIdle ==
    /\ npeers = [n \in Nets |-> [id \in Nets |-> NoPeer]]
    /\ nconn = [d \in Nets |-> NoConn]
    /\ napc = [n \in Nets |-> "returned"]
    /\ nlpc = [n \in Nets |-> "stopped"]

\* nw.AddPeer(addr, id) is called on network n for the other network.
AddPeerCall(n) ==
    /\ napc[n] = "idle"
    /\ napc' = [napc EXCEPT ![n] = "check"]
    /\ UNCHANGED <<npeers, nconn, nlpc, exceptNet>>

\* AddPeer: the test of nw.Peers[id] under the lock.
AddPeerCheck(n) ==
    /\ napc[n] = "check"
    /\ napc' = [napc EXCEPT ![n] = IF npeers[n][Other(n)].present
                                   THEN "returned" ELSE "dial"]
    /\ UNCHANGED <<npeers, nconn, nlpc, exceptNet>>

\* AddPeer: net.Dial, which fails while the connection cannot be made.
AddPeerDial(n) ==
    /\ napc[n] = "dial"
    /\ \E ok \in BOOLEAN :
           IF ok
           THEN /\ nconn' = [nconn EXCEPT ![n].dialled = TRUE]
                /\ napc' = [napc EXCEPT ![n] = "send"]
           ELSE /\ nconn' = nconn
                /\ napc' = [napc EXCEPT ![n] = "check"]
    /\ UNCHANGED <<npeers, nlpc, exceptNet>>

\* AddPeer: conn.SendUint32(nw.ID) and conn.Flush
AddPeerSend(n) ==
    /\ napc[n] = "send"
    /\ nconn' = [nconn EXCEPT ![n].idSent = TRUE]
    /\ napc' = [napc EXCEPT ![n] = "newPeer"]
    /\ UNCHANGED <<npeers, nlpc, exceptNet>>

\* AddPeer: nw.newPeer(true, conn, id) up to peer.init
AddPeerNewPeer(n) ==
    /\ napc[n] = "newPeer"
    /\ newPeer(n, TRUE, n, Other(n))
    /\ napc' = [napc EXCEPT ![n] = IF AlreadyConnected(n, Other(n))
                                   THEN "check" ELSE "init"]
    /\ UNCHANGED <<nlpc, exceptNet>>

AddPeerInitSend(n) ==
    /\ napc[n] = "init"
    /\ initSend(n, n, Other(n))
    /\ napc' = [napc EXCEPT ![n] = "finish"]
    /\ UNCHANGED <<nlpc, exceptNet>>

\* AddPeer: peer.init returns, with an error or not, and the loop goes on.
AddPeerInitFinish(n) ==
    /\ napc[n] = "finish"
    /\ initFinish(n, n, Other(n))
    /\ napc' = [napc EXCEPT ![n] = "check"]
    /\ UNCHANGED <<nlpc, exceptNet>>

\* acceptLoop: nw.listener.Accept
AcceptConn(n) ==
    /\ nlpc[n] = "accept"
    /\ nconn[Other(n)].dialled /\ ~nconn[Other(n)].accepted
    /\ nconn' = [nconn EXCEPT ![Other(n)].accepted = TRUE]
    /\ nlpc' = [nlpc EXCEPT ![n] = "receive"]
    /\ UNCHANGED <<npeers, napc, exceptNet>>

\* acceptLoop: conn.ReceiveUint32, the id of the peer
AcceptReceive(n) ==
    /\ nlpc[n] = "receive"
    /\ nconn[Other(n)].idSent
    /\ nlpc' = [nlpc EXCEPT ![n] = "newPeer"]
    /\ UNCHANGED <<npeers, nconn, napc, exceptNet>>

\* acceptLoop: nw.newPeer(false, conn, id) up to peer.init
AcceptNewPeer(n) ==
    /\ nlpc[n] = "newPeer"
    /\ newPeer(n, FALSE, Other(n), Other(n))
    /\ nlpc' = [nlpc EXCEPT ![n] = IF AlreadyConnected(n, Other(n))
                                   THEN "accept" ELSE "init"]
    /\ UNCHANGED <<napc, exceptNet>>

AcceptInitSend(n) ==
    /\ nlpc[n] = "init"
    /\ initSend(n, Other(n), Other(n))
    /\ nlpc' = [nlpc EXCEPT ![n] = "finish"]
    /\ UNCHANGED <<napc, exceptNet>>

AcceptInitFinish(n) ==
    /\ nlpc[n] = "finish"
    /\ initFinish(n, Other(n), Other(n))
    /\ nlpc' = [nlpc EXCEPT ![n] = "accept"]
    /\ UNCHANGED <<napc, exceptNet>>

(***************************************************************************)
(* p2p/network.go: Peer.OTLambda between the two ends of a connection,     *)
(* peer 0 with client = true and peer 1 with client = false.  A Conn       *)
(* buffers what is sent until Flush; a receive blocks until the other end  *)
(* has flushed a frame.  Conn.Receive, the querier's side of one transfer, *)
(* sends the index and flushes, receives the two random messages, sends v  *)
(* and flushes, and receives the two encrypted messages.                   *)
(***************************************************************************)
LambdaPeers == {0, 1}

IsClient(p) == p = 0

Frame(k, v) == [k |-> k, v |-> v]

\* A phase order in which both peers respond first.
FirstPhaseRespond(client) == "respond"

\* OTLambda: the client queries first, the server responds first.
FirstPhase(client) == IF client THEN "query" ELSE "respond"

SecondPhase(client) == IF client THEN "respond" ELSE "query"

\* The variables a step leaves alone, besides those it names.
LambdaUnchanged(except) ==
    /\ IF "ophase" \in except THEN TRUE ELSE UNCHANGED <<ophase, onum>>
    /\ IF "ostep" \in except THEN TRUE ELSE UNCHANGED <<ostep, oi>>
    /\ IF "oxfers" \in except THEN TRUE ELSE UNCHANGED oxfers
    /\ UNCHANGED <<ocount, exceptLambda>>

\* Peer p has n flushed frames of the other peer to receive.
CanReceive(p, n) == Len(owire[1 - p]) >= n

\* Peer p receives n frames, then sends the frames given and flushes when
\* there are any: Flush hands over what the Conn has buffered.
ReceiveSendFlush(p, n, frames) ==
    /\ CanReceive(p, n)
    /\ IF frames = <<>>
       THEN /\ owire' = [owire EXCEPT ![1 - p] = SubSeq(@, n + 1, Len(@))]
            /\ obuf' = obuf
       ELSE /\ owire' = [owire EXCEPT ![1 - p] = SubSeq(@, n + 1, Len(@)),
                                      ![p] = @ \o obuf[p] \o frames]
            /\ obuf' = [obuf EXCEPT ![p] = <<>>]

\* The phase of p ends without error: OTLambda goes on with the second
\* phase, or returns.
EndPhase(p) ==
    IF onum[p] = 1
    THEN /\ ophase' = [ophase EXCEPT ![p] = SecondPhase(IsClient(p))]
         /\ onum' = [onum EXCEPT ![p] = 2]
         /\ ostep' = [ostep EXCEPT ![p] = "count"]
         /\ oi' = [oi EXCEPT ![p] = 0]
    ELSE /\ ophase' = [ophase EXCEPT ![p] = "done"]
         /\ onum' = onum
         /\ ostep' = [ostep EXCEPT ![p] = "end"]
         /\ oi' = oi

\* The loop of the phase goes to its next round or the phase ends.
NextRound(p, first) ==
    IF oi[p] + 1 < ocount[p]
    THEN /\ oi' = [oi EXCEPT ![p] = @ + 1]
         /\ ostep' = [ostep EXCEPT ![p] = first]
         /\ UNCHANGED <<ophase, onum>>
    ELSE EndPhase(p)

LambdaInit ==
    /\ ocount \in [LambdaPeers -> 0 .. MaxOTs]
    /\ ophase = [p \in LambdaPeers |-> FirstPhase(IsClient(p))]
    /\ onum = [p \in LambdaPeers |-> 1]
    /\ ostep = [p \in LambdaPeers |-> "count"]
    /\ oi = [p \in LambdaPeers |-> 0]
    /\ obuf = [p \in LambdaPeers |-> <<>>]
    /\ owire = [p \in LambdaPeers |-> <<>>]
    /\ oxfers = [p \in LambdaPeers |-> 0]

LambdaIdle ==
    /\ ocount = [p \in LambdaPeers |-> 0]
    /\ ophase = [p \in LambdaPeers |-> "done"]
    /\ onum = [p \in LambdaPeers |-> 2]
    /\ ostep = [p \in LambdaPeers |-> "end"]
    /\ oi = [p \in LambdaPeers |-> 0]
    /\ obuf = [p \in LambdaPeers |-> <<>>]
    /\ owire = [p \in LambdaPeers |-> <<>>]
    /\ oxfers = [p \in LambdaPeers |-> 0]

\* OTLambdaQuery: SendUint32(count) and Flush
QuerySendCount(p) ==
    /\ ophase[p] = "query" /\ ostep[p] = "count"
    /\ ReceiveSendFlush(p, 0, <<Frame("count", ocount[p])>>)
    /\ IF ocount[p] > 0
       THEN /\ ostep' = [ostep EXCEPT ![p] = "index"]
            /\ UNCHANGED <<ophase, onum, oi>>
       ELSE EndPhase(p)
    /\ LambdaUnchanged({"ophase", "ostep"})

\* Conn.Receive: the index of the transfer is sent and flushed
QuerySendIndex(p) ==
    /\ ophase[p] = "query" /\ ostep[p] = "index"
    /\ ReceiveSendFlush(p, 0, <<Frame("index", oi[p])>>)
    /\ ostep' = [ostep EXCEPT ![p] = "random"]
    /\ oi' = oi
    /\ LambdaUnchanged({"ostep"})

\* Conn.Receive: the random messages are received, v is sent and flushed
QueryReceiveRandom(p) ==
    /\ ophase[p] = "query" /\ ostep[p] = "random"
    /\ ReceiveSendFlush(p, 2, <<Frame("v", oi[p])>>)
    /\ ostep' = [ostep EXCEPT ![p] = "messages"]
    /\ oi' = oi
    /\ LambdaUnchanged({"ostep"})

\* Conn.Receive: the encrypted messages are received; the bit is stored
QueryReceiveMessages(p) ==
    /\ ophase[p] = "query" /\ ostep[p] = "messages"
    /\ ReceiveSendFlush(p, 2, <<>>)
    /\ NextRound(p, "index")
    /\ LambdaUnchanged({"ophase", "ostep"})

\* OTLambdaRespond: the count of the peer is received and compared
RespondReceiveCount(p) ==
    /\ ophase[p] = "respond" /\ ostep[p] = "count"
    /\ ReceiveSendFlush(p, 1, <<>>)
    /\ IF Head(owire[1 - p]).v # ocount[p]
       THEN /\ ophase' = [ophase EXCEPT ![p] = "failed"]
            /\ ostep' = [ostep EXCEPT ![p] = "protocol error"]
            /\ UNCHANGED <<onum, oi>>
       ELSE IF ocount[p] > 0
       THEN /\ ostep' = [ostep EXCEPT ![p] = "bit"]
            /\ UNCHANGED <<ophase, onum, oi>>
       ELSE EndPhase(p)
    /\ LambdaUnchanged({"ophase", "ostep"})

\* OTLambdaRespond: the bit is received, the transfer is made and the
\* random messages are sent and flushed
RespondSendRandom(p) ==
    /\ ophase[p] = "respond" /\ ostep[p] = "bit"
    /\ ReceiveSendFlush(p, 1, <<Frame("x0", oi[p]), Frame("x1", oi[p])>>)
    /\ oxfers' = [oxfers EXCEPT ![p] = @ + 1]
    /\ ostep' = [ostep EXCEPT ![p] = "v"]
    /\ oi' = oi
    /\ LambdaUnchanged({"ostep", "oxfers"})

\* OTLambdaRespond: v is received and the messages are sent and flushed
RespondSendMessages(p) ==
    /\ ophase[p] = "respond" /\ ostep[p] = "v"
    /\ ReceiveSendFlush(p, 1, <<Frame("m0", oi[p]), Frame("m1", oi[p])>>)
    /\ NextRound(p, "bit")
    /\ LambdaUnchanged({"ophase", "ostep"})

PeerStep(p) ==
    \/ QuerySendCount(p) \/ QuerySendIndex(p) \/ QueryReceiveRandom(p)
    \/ QueryReceiveMessages(p)
    \/ RespondReceiveCount(p) \/ RespondSendRandom(p)
    \/ RespondSendMessages(p)

(***************************************************************************)
(* Assign.SSA.  The block binds the array a of ArrayLen elements and the   *)
(* variables b and c, each at version 0; u is not bound.  An l-value is a  *)
(* name or a[i] with a constant i, and the expressions of the assignment   *)
(* yield the values 1 .. n.  gen.NewVar gives a name its next version.     *)
(***************************************************************************)
ArrayLen == MaxArraySize - 1

AssignBindings == [n \in {"a", "b", "c"} |-> 0]

LValues ==
    [k : {"name"}, name : {"b", "c", "u"}, index : {0}]
    \cup [k : {"index"}, name : {"a"}, index : 0 .. ArrayLen]

AssignError(err) ==
    [err |-> err, instrs |-> <<>>, bindings |-> AssignBindings, values |-> 0]

\* The loop over ast.LValues from index at on; st holds the instructions
\* and the bindings of the block.  The case of an Index returns from
\* Assign.SSA.
RECURSIVE AssignLValues(_, _, _, _)
AssignLValues(lvalues, define, at, st) ==
    IF at > Len(lvalues)
    THEN [err |-> "", instrs |-> st.instrs, bindings |-> st.bindings,
          values |-> Len(lvalues)]
    ELSE LET lv == lvalues[at]
             ok == lv.name \in DOMAIN st.bindings
             ver == IF ok THEN st.bindings[lv.name] + 1 ELSE 0
         IN  IF lv.k = "name"
             THEN IF define /\ ok
                  THEN AssignError("no new variables on left side of :=")
                  ELSE IF ~define /\ ~ok THEN AssignError("undefined")
                  ELSE AssignLValues(lvalues, define, at + 1,
                           [instrs |-> Append(st.instrs,
                                              [op |-> "mov", v |-> at,
                                               name |-> lv.name,
                                               ver |-> ver]),
                            bindings |->
                                (lv.name :> ver) @@ st.bindings])
             ELSE IF define THEN AssignError("a non-name on left side of :=")
             ELSE IF ~ok THEN AssignError("undefined")
             ELSE IF lv.index >= ArrayLen
             THEN AssignError("invalid array index")
             ELSE [err |-> "",
                   instrs |-> Append(st.instrs,
                                     [op |-> "amov", v |-> at,
                                      name |-> lv.name, ver |-> ver]),
                   bindings |-> (lv.name :> ver) @@ st.bindings,
                   values |-> 1]

AssignSSA(lvalues, nvalues, define) ==
    IF Len(lvalues) # nvalues THEN AssignError("assignment mismatch")
    ELSE AssignLValues(lvalues, define, 1,
                       [instrs |-> <<>>, bindings |-> AssignBindings])

LValueSeqs(n) == UNION {[1 .. k -> LValues] : k \in 1 .. n}

AssignInit ==
    /\ alvalues \in LValueSeqs(MaxLValues)
    /\ anvalues \in 1 .. MaxLValues
    /\ adefine \in BOOLEAN
    /\ apc = "start"
    /\ ares = AssignError("")

AssignIdle ==
    /\ alvalues = <<>> /\ anvalues = 1 /\ adefine = FALSE /\ apc = "done"
    /\ ares = AssignError("")

AssignSSACall ==
    /\ apc = "start"
    /\ ares' = AssignSSA(alvalues, anvalues, adefine)
    /\ apc' = "done"
    /\ UNCHANGED <<alvalues, anvalues, adefine, exceptAssign>>

(***************************************************************************)
(* The specifications.                                                     *)
(***************************************************************************)
vars == <<garbleVars, ssaVars, otVars, callVars, binaryVars, builderVars,
          retVars, compVars, idxVars, driverVars, parserVars, serveVars,
          shiftVars, playerVars, netVars, lambdaVars, assignVars>>

InitGarble == GarbleInit /\ SSAIdle /\ OTIdle /\ CallIdle /\ BinaryIdle /\
              BuilderIdle /\ RetIdle /\ CompIdle /\ IdxIdle /\ DriverIdle /\
              ParserIdle /\ ServeIdle /\ ShiftIdle /\ PlayerIdle /\
              NetIdle /\ LambdaIdle /\ AssignIdle

NextGarble == Garble \/ Eval

SpecGarble == InitGarble /\ [][NextGarble]_vars

InitSSA == GarbleIdle /\ SSAInit /\ OTIdle /\ CallIdle /\ BinaryIdle /\
           BuilderIdle /\ RetIdle /\ CompIdle /\ IdxIdle /\ DriverIdle /\
           ParserIdle /\ ServeIdle /\ ShiftIdle /\ PlayerIdle /\ NetIdle /\
           LambdaIdle /\ AssignIdle

NextSSA == ForSSAInit \/ ForSSAIter \/ ConstantDefSSA \/ IfSSA

\* An SSA method is a sequential function: it runs to its return.
SpecSSA == InitSSA /\ [][NextSSA]_vars /\ WF_vars(NextSSA)

InitOT == GarbleIdle /\ SSAIdle /\ OTInit /\ CallIdle /\ BinaryIdle /\
          BuilderIdle /\ RetIdle /\ CompIdle /\ IdxIdle /\ DriverIdle /\
          ParserIdle /\ ServeIdle /\ ShiftIdle /\ PlayerIdle /\ NetIdle /\
          LambdaIdle /\ AssignIdle

Sender == InitSender \/ SendSetup \/ SendWire

Receiver == InitReceiver \/ ReceiveSetup \/ ReceiveRequest \/ ReceiveResponse
            \/ CheckLabels

NextOT == Sender \/ Receiver

\* The two goroutines of testOT are both scheduled.
SpecOT == InitOT /\ [][NextOT]_vars /\ WF_vars(Sender) /\ WF_vars(Receiver)

InitCall == GarbleIdle /\ SSAIdle /\ OTIdle /\ CallInit /\ BinaryIdle /\
            BuilderIdle /\ RetIdle /\ CompIdle /\ IdxIdle /\ DriverIdle /\
            ParserIdle /\ ServeIdle /\ ShiftIdle /\ PlayerIdle /\ NetIdle /\
            LambdaIdle /\ AssignIdle

NextCall == CallSSA \/ CallReturn

SpecCall == InitCall /\ [][NextCall]_vars

InitBinary == GarbleIdle /\ SSAIdle /\ OTIdle /\ CallIdle /\ BinaryInit /\
              BuilderIdle /\ RetIdle /\ CompIdle /\ IdxIdle /\ DriverIdle /\
              ParserIdle /\ ServeIdle /\ ShiftIdle /\ PlayerIdle /\
              NetIdle /\ LambdaIdle /\ AssignIdle

NextBinary == BinaryEvalCall \/ BinarySSACall

SpecBinary == InitBinary /\ [][NextBinary]_vars

InitBuilder == GarbleIdle /\ SSAIdle /\ OTIdle /\ CallIdle /\ BinaryIdle /\
               BuilderInit /\ RetIdle /\ CompIdle /\ IdxIdle /\ DriverIdle /\
               ParserIdle /\ ServeIdle /\ ShiftIdle /\ PlayerIdle /\
               NetIdle /\ LambdaIdle /\ AssignIdle

NextBuilder ==
    \/ NewDividerCall
    \/ NewLtComparatorCall
    \/ NewLeComparatorCall
    \/ ComputeCall

SpecBuilder == InitBuilder /\ [][NextBuilder]_vars

InitRet == GarbleIdle /\ SSAIdle /\ OTIdle /\ CallIdle /\ BinaryIdle /\
           BuilderIdle /\ RetInit /\ CompIdle /\ IdxIdle /\ DriverIdle /\
           ParserIdle /\ ServeIdle /\ ShiftIdle /\ PlayerIdle /\ NetIdle /\
           LambdaIdle /\ AssignIdle

NextRet == CompileCall \/ RetComputeCall

SpecRet == InitRet /\ [][NextRet]_vars

InitComp == GarbleIdle /\ SSAIdle /\ OTIdle /\ CallIdle /\ BinaryIdle /\
            BuilderIdle /\ RetIdle /\ CompInit /\ IdxIdle /\ DriverIdle /\
            ParserIdle /\ ServeIdle /\ ShiftIdle /\ PlayerIdle /\ NetIdle /\
            LambdaIdle /\ AssignIdle

NextComp == Prune \/ CompileGates

SpecComp == InitComp /\ [][NextComp]_vars

InitIdx == GarbleIdle /\ SSAIdle /\ OTIdle /\ CallIdle /\ BinaryIdle /\
           BuilderIdle /\ RetIdle /\ CompIdle /\ IdxInit /\ DriverIdle /\
           ParserIdle /\ ServeIdle /\ ShiftIdle /\ PlayerIdle /\ NetIdle /\
           LambdaIdle /\ AssignIdle

NextIdx == IndexSSACall \/ AssignIndexSSACall \/ SliceSSACall

SpecIdx == InitIdx /\ [][NextIdx]_vars

InitDriver == GarbleIdle /\ SSAIdle /\ OTIdle /\ CallIdle /\ BinaryIdle /\
              BuilderIdle /\ RetIdle /\ CompIdle /\ IdxIdle /\ DriverInit /\
              ParserIdle /\ ServeIdle /\ ShiftIdle /\ PlayerIdle /\
              NetIdle /\ LambdaIdle /\ AssignIdle

NextDriver ==
    \/ MainCompile \/ MainStream \/ MainArgs \/ MainLoad \/ MainBMR
    \/ MainTwoParty

SpecDriver == InitDriver /\ [][NextDriver]_vars

InitParser == GarbleIdle /\ SSAIdle /\ OTIdle /\ CallIdle /\ BinaryIdle /\
              BuilderIdle /\ RetIdle /\ CompIdle /\ IdxIdle /\ DriverIdle /\
              ParserInit /\ ServeIdle /\ ShiftIdle /\ PlayerIdle /\
              NetIdle /\ LambdaIdle /\ AssignIdle

NextParser == ParseCall

SpecParser == InitParser /\ [][NextParser]_vars

InitServe == GarbleIdle /\ SSAIdle /\ OTIdle /\ CallIdle /\ BinaryIdle /\
             BuilderIdle /\ RetIdle /\ CompIdle /\ IdxIdle /\ DriverIdle /\
             ParserIdle /\ ServeInit /\ ShiftIdle /\ PlayerIdle /\ NetIdle /\
             LambdaIdle /\ AssignIdle

NextServe == Listen \/ Accept \/ Evaluator \/ CloseSession

SpecServe == InitServe /\ [][NextServe]_vars

InitShift == GarbleIdle /\ SSAIdle /\ OTIdle /\ CallIdle /\ BinaryIdle /\
             BuilderIdle /\ RetIdle /\ CompIdle /\ IdxIdle /\ DriverIdle /\
             ParserIdle /\ ServeIdle /\ ShiftInit /\ PlayerIdle /\ NetIdle /\
             LambdaIdle /\ AssignIdle

NextShift == ShiftLeftCall

SpecShift == InitShift /\ [][NextShift]_vars

InitPlayer == GarbleIdle /\ SSAIdle /\ OTIdle /\ CallIdle /\ BinaryIdle /\
              BuilderIdle /\ RetIdle /\ CompIdle /\ IdxIdle /\ DriverIdle /\
              ParserIdle /\ ServeIdle /\ ShiftIdle /\ PlayerInit /\
              NetIdle /\ LambdaIdle /\ AssignIdle

NextPlayer == OfflinePhase

SpecPlayer == InitPlayer /\ [][NextPlayer]_vars

InitNet == GarbleIdle /\ SSAIdle /\ OTIdle /\ CallIdle /\ BinaryIdle /\
           BuilderIdle /\ RetIdle /\ CompIdle /\ IdxIdle /\ DriverIdle /\
           ParserIdle /\ ServeIdle /\ ShiftIdle /\ PlayerIdle /\ NetInit /\
           LambdaIdle /\ AssignIdle

NextNet ==
    \E n \in Nets :
        \/ AddPeerCall(n) \/ AddPeerCheck(n) \/ AddPeerDial(n)
        \/ AddPeerSend(n) \/ AddPeerNewPeer(n) \/ AddPeerInitSend(n)
        \/ AddPeerInitFinish(n)
        \/ AcceptConn(n) \/ AcceptReceive(n) \/ AcceptNewPeer(n)
        \/ AcceptInitSend(n) \/ AcceptInitFinish(n)

SpecNet == InitNet /\ [][NextNet]_vars

InitLambda == GarbleIdle /\ SSAIdle /\ OTIdle /\ CallIdle /\ BinaryIdle /\
              BuilderIdle /\ RetIdle /\ CompIdle /\ IdxIdle /\ DriverIdle /\
              ParserIdle /\ ServeIdle /\ ShiftIdle /\ PlayerIdle /\
              NetIdle /\ LambdaInit /\ AssignIdle

NextLambda == \E p \in LambdaPeers : PeerStep(p)

\* Both peers run: a step of a peer that stays possible is taken.
SpecLambda ==
    /\ InitLambda
    /\ [][NextLambda]_vars
    /\ \A p \in LambdaPeers : WF_vars(PeerStep(p))

InitAssign == GarbleIdle /\ SSAIdle /\ OTIdle /\ CallIdle /\ BinaryIdle /\
              BuilderIdle /\ RetIdle /\ CompIdle /\ IdxIdle /\ DriverIdle /\
              ParserIdle /\ ServeIdle /\ ShiftIdle /\ PlayerIdle /\
              NetIdle /\ LambdaIdle /\ AssignInit

NextAssign == AssignSSACall

SpecAssign == InitAssign /\ [][NextAssign]_vars

(***************************************************************************)
(* Properties of garbling and evaluation.                                  *)
(***************************************************************************)
\* The plaintext value of every wire, given the bits of the input wires.
RECURSIVE PlainGates(_, _, _)
PlainGates(gates, k, vals) ==
    IF k > Len(gates) THEN vals
    ELSE LET g == gates[k]
         IN  PlainGates(gates, k + 1,
                 (g.out :> GateValue(g.op, vals[g.in0], vals[g.in1])) @@ vals)

Plain(c, bits) == PlainGates(c.Gates, 1, bits)

\* The label of a wire for a bit.
LabelFor(w, bit) == IF bit = 1 THEN w.Label1 ELSE w.Label0

\* (S(a) << 1) | S(b), and S(a) when there is no b.
RowIndex(a, b) ==
    IF b = Nil THEN (IF S(a) THEN 1 ELSE 0)
    ELSE 2 * (IF S(a) THEN 1 ELSE 0) + (IF S(b) THEN 1 ELSE 0)

GateIndexes == 1 .. Len(circ.Gates)

FullInputs == \A i \in DOMAIN evalIn : evalIn[i] # Nil

\* C1: when Eval starts with the labels Garble assigned to the input bits and
\* is given Garble's tables, for a circuit of XOR, AND, OR and INV gates, it
\* returns no error and every gate's output wire holds the label Garble
\* assigned to the plaintext value of that gate.
C1_GarbleEvalCorrect ==
    ( /\ gpc = "evaluated"
      /\ FullInputs
      /\ evalTables = garbled.Gates
      /\ \A k \in GateIndexes : circ.Gates[k].op \in {"XOR", "AND", "OR", "INV"} )
    => /\ evalRes.err = "none"
       /\ \A k \in GateIndexes :
            LET out == circ.Gates[k].out
            IN  /\ out \in DOMAIN evalRes.wires
                /\ evalRes.wires[out] =
                     LabelFor(garbled.Wires[out], Plain(circ, evalIn)[out])

\* A two-gate circuit, AND feeding OR, evaluated on inputs 1, 0.
C1_Witness ==
    /\ gpc = "evaluated"
    /\ FullInputs
    /\ evalTables = garbled.Gates
    /\ Len(circ.Gates) = 2
    /\ circ.Gates[1].op = "AND" /\ circ.Gates[1].in0 = 0 /\ circ.Gates[1].in1 = 1
    /\ circ.Gates[2].op = "OR" /\ circ.Gates[2].in0 = 2 /\ circ.Gates[2].in1 = 1
    /\ evalIn[0] = 1 /\ evalIn[1] = 0
    /\ evalRes.err = "none"
    /\ evalRes.wires[3] = garbled.Wires[3].Label0

\* C2: after Garble returned without error, R has its permute bit set and
\* every wire of the circuit has Label1 = Label0 XOR R.
C2_FreeXorInvariant ==
    gpc \in {"garbled", "evaluated"}
    => /\ S(garbled.r)
       /\ DOMAIN garbled.Wires = 0 .. (circ.NumWires - 1)
       /\ \A w \in DOMAIN garbled.Wires :
            garbled.Wires[w].Label1 = Xor(garbled.Wires[w].Label0, garbled.r)

\* A garbled circuit with an XOR gate, an AND gate and an input wire that no
\* gate uses.
C2_Witness ==
    /\ gpc = "garbled"
    /\ Len(circ.Gates) = 2
    /\ circ.Gates[1].op = "XOR" /\ circ.Gates[1].in0 = 0 /\ circ.Gates[1].in1 = 0
    /\ circ.Gates[2].op = "AND" /\ circ.Gates[2].in0 = 2 /\ circ.Gates[2].in1 = 0
    /\ garbled.Wires[1].Label1 = Xor(garbled.Wires[1].Label0, garbled.r)

\* The row Garble made for input bits x, y of gate k is at the position
\* given by the permute bits of the input labels for x, y.
RowInPlace(k, x, y) ==
    LET g  == circ.Gates[k]
        la == LabelFor(garbled.Wires[g.in0], x)
        lb == IF g.op = "INV" THEN Nil ELSE LabelFor(garbled.Wires[g.in1], y)
        lc == LabelFor(garbled.Wires[g.out], GateValue(g.op, x, y))
    IN  /\ RowIndex(la, lb) < Len(garbled.Gates[k])
        /\ garbled.Gates[k][RowIndex(la, lb) + 1] = encrypt(la, lb, lc, g.id)
        /\ idx(la, lb) = RowIndex(la, lb)

\* The row indexes of the table of gate k.
RowIndexes(k) ==
    LET g == circ.Gates[k]
    IN  { RowIndex(LabelFor(garbled.Wires[g.in0], x),
                   IF g.op = "INV" THEN Nil
                   ELSE LabelFor(garbled.Wires[g.in1], y)) : x \in {0, 1}, y \in {0, 1} }

\* C3: a garbled AND or OR gate has 4 rows and an INV gate 2, the row made
\* under input labels a, b is at position (S(a) << 1) | S(b) (S(a) for INV),
\* which is the index Gate.Eval computes, and the indexes of one table are
\* pairwise distinct, also when both inputs are the same wire.  It is stated
\* of what Garble returned; Eval changes neither the circuit nor the tables.
C3_RowOrder ==
    gpc = "garbled"
    => \A k \in GateIndexes :
         LET g == circ.Gates[k]
         IN  /\ g.op \in {"AND", "OR"} =>
                  /\ Len(garbled.Gates[k]) = 4
                  /\ RowIndexes(k) = 0 .. 3
                  /\ \A x \in {0, 1}, y \in {0, 1} : RowInPlace(k, x, y)
             /\ g.op = "INV" =>
                  /\ Len(garbled.Gates[k]) = 2
                  /\ RowIndexes(k) = 0 .. 1
                  /\ \A x \in {0, 1} : RowInPlace(k, x, 0)

\* A garbled AND gate with both inputs on the same wire, whose 0-label has
\* the permute bit set, followed by an INV gate.
C3_Witness ==
    /\ gpc = "garbled"
    /\ Len(circ.Gates) = 2
    /\ circ.Gates[1].op = "AND" /\ circ.Gates[1].in0 = 1 /\ circ.Gates[1].in1 = 1
    /\ circ.Gates[2].op = "INV" /\ circ.Gates[2].in0 = 2
    /\ S(garbled.Wires[1].Label0)
    /\ Len(garbled.Gates[1]) = 4
    /\ Len(garbled.Gates[2]) = 2

\* C4 (as claimed): garbling a circuit of XOR and XNOR gates succeeds with no
\* table rows, and L0_out = L0_a XOR L0_b, flipped by R for XNOR.
C4_XorXnorGarbles ==
    ( /\ gpc \in {"garbled", "failed", "evaluated"}
      /\ \A k \in GateIndexes : circ.Gates[k].op \in {"XOR", "XNOR"} )
    => /\ garbled.err = "none"
       /\ \A k \in GateIndexes :
            LET g  == circ.Gates[k]
                x0 == Xor(garbled.Wires[g.in0].Label0, garbled.Wires[g.in1].Label0)
            IN  /\ garbled.Gates[k] = <<>>
                /\ garbled.Wires[g.out].Label0 =
                     IF g.op = "XOR" THEN x0 ELSE Xor(x0, garbled.r)

\* The gates whose evaluation fails, given the wire map Eval left: an input
\* wire has no label, the op is unknown to Gate.Eval, or the table is shorter
\* than the row index.
EvalFailsAt(k) ==
    LET g == circ.Gates[k]
        w == evalRes.wires
    IN  \/ g.op \notin {"XOR", "AND", "OR", "INV"}
        \/ g.in0 \notin DOMAIN w
        \/ g.op # "INV" /\ g.in1 \notin DOMAIN w
        \/ /\ g.op \in {"AND", "OR"}
           /\ g.in0 \in DOMAIN w /\ g.in1 \in DOMAIN w
           /\ RowIndex(w[g.in0], w[g.in1]) >= Len(evalTables[k])
        \/ /\ g.op = "INV"
           /\ g.in0 \in DOMAIN w
           /\ RowIndex(w[g.in0], Nil) >= Len(evalTables[k])

GivenInputs == {i \in DOMAIN evalIn : evalIn[i] # Nil}

\* C5: Eval stops at the first gate that has an input wire without a label
\* (or an unknown op, or a table shorter than the row index) and returns an
\* error; the output wires of that gate and of all later gates get no label,
\* and no label appears for a wire that had none.
C5_EvalStopsAtFirstError ==
    gpc = "evaluated"
    => LET bad == {k \in GateIndexes : EvalFailsAt(k)}
       IN  IF bad = {}
           THEN /\ evalRes.err = "none"
                /\ evalRes.done = Len(circ.Gates)
           ELSE LET first == CHOOSE k \in bad : \A j \in bad : k <= j
                IN  /\ evalRes.err # "none"
                    /\ evalRes.done = first - 1
                    /\ DOMAIN evalRes.wires =
                         GivenInputs \cup {circ.Gates[j].out : j \in 1 .. (first - 1)}
                    /\ \A j \in first .. Len(circ.Gates) :
                         circ.Gates[j].out \notin DOMAIN evalRes.wires

\* Eval of a two-gate circuit fails at the first gate for a missing label of
\* input wire 1; neither gate's output wire gets a label.
C5_Witness ==
    /\ gpc = "evaluated"
    /\ Len(circ.Gates) = 2
    /\ evalIn[0] = 1 /\ evalIn[1] = Nil
    /\ circ.Gates[1].in1 = 1
    /\ evalRes.err = "No input for wire b found"
    /\ evalRes.done = 0
    /\ DOMAIN evalRes.wires = {0}

(***************************************************************************)
(* Properties of the oblivious transfer.                                   *)
(***************************************************************************)
OTReturned == spcS = "done" /\ spcR = "done"

OTChosen ==
    \A i \in DOMAIN otFlags :
        otLabels[i] = IF otFlags[i] THEN otWires[i].L1 ELSE otWires[i].L0

OTRoundTripDone == OTReturned => (done = "nil" /\ OTChosen)

\* C6: InitSender/Send on one end of the pipe and InitReceiver/Receive on the
\* other, run concurrently, both return, the receiver goroutine reports no
\* error, and every received label is the wire's L1 when its flag is true and
\* the wire's L0 when it is false.
C6_OTRoundTrip == [](OTRoundTripDone) /\ <>(OTReturned)

\* A finished transfer in which both choices occur and the two labels of
\* each wire differ.
C6_Witness ==
    /\ OTReturned /\ done = "nil"
    /\ otFlags[0] /\ ~otFlags[1]
    /\ \A i \in DOMAIN otWires : otWires[i].L0 # otWires[i].L1
    /\ otLabels[0] = otWires[0].L1 /\ otLabels[1] = otWires[1].L0

(***************************************************************************)
(* Properties of SSA generation.                                           *)
(***************************************************************************)
\* A loop  for v := a; v < l; v = v + d  whose body compiles and leaves v
\* to the increment.
FoldingLoop(st) ==
    /\ st.kind = "for"
    /\ st.init.kind = "const" /\ st.cond.kind = "lt" /\ st.inc.kind = "add"
    /\ ~st.body.runtime /\ st.body.failAt = 0

\* The condition of the folding loop st holds at the start of iteration k
\* (from 0).
CondHoldsAt(st, k) == st.init.val + k * st.inc.step < st.cond.limit

\* The condition holds for exactly n iterations.
HoldsExactly(st, n) ==
    /\ \A k \in 0 .. (n - 1) : CondHoldsAt(st, k)
    /\ ~CondHoldsAt(st, n)

\* The condition holds for more than n iterations.
HoldsMoreThan(st, n) == \A k \in 0 .. n : CondHoldsAt(st, k)

UnrollCapped ==
    stmt.kind = "for" =>
        /\ fExpanded <= MaxLoopUnroll
        /\ (spc = "done" /\ FoldingLoop(stmt) /\ HoldsMoreThan(stmt, MaxLoopUnroll))
               => (serr = "for-loop unroll limit exceeded"
                   /\ fExpanded = MaxLoopUnroll)

\* C7: For.SSA returns the for-loop unroll limit exceeded error for every
\* loop whose constant condition holds for more than MaxLoopUnroll
\* iterations, it never expands a body more than MaxLoopUnroll times, and it
\* returns for every loop.
C7_UnrollLimit == [](UnrollCapped) /\ <>(spc = "done")

C7_Witness ==
    /\ spc = "done" /\ FoldingLoop(stmt) /\ HoldsMoreThan(stmt, MaxLoopUnroll)
    /\ serr = "for-loop unroll limit exceeded"
    /\ fExpanded = MaxLoopUnroll

\* C8: a for-loop whose constant condition holds for exactly N iterations,
\* 0 <= N <= MaxLoopUnroll, compiles without error and its body is expanded
\* exactly N times.
C8_ExactIterations ==
    \A n \in 0 .. MaxLoopUnroll :
        (spc = "done" /\ FoldingLoop(stmt) /\ HoldsExactly(stmt, n))
            => (serr = "none" /\ fExpanded = n)

\* The error For.SSA returns when Eval of part p returned ok = false.
NotConstantError(p) ==
    CASE p = "init" -> "init statement is not compile-time constant"
      [] p = "cond" -> "condition is not compile-time constant"
      [] OTHER      -> "increment statement is not compile-time constant"

\* The expansions made when part p was evaluated in iteration i.
ExpandedWhen(p, i) == IF p = "inc" THEN i + 1 ELSE i

\* C9: when Eval of a for-loop's init, condition or increment returns
\* ok = false, For.SSA has returned the matching error and the body was
\* expanded no further than before that Eval; ConstantDef.SSA of a constant
\* whose init expression does not fold returns an error and leaves the
\* bindings of the block as they were.
C9_FoldingMandatory ==
    /\ (stmt.kind = "for" /\ fNonConst # "none") =>
           /\ spc = "done"
           /\ serr = NotConstantError(fNonConst)
           /\ fExpanded = ExpandedWhen(fNonConst, fi)
    /\ (stmt.kind = "const" /\ spc = "done" /\ stmt.init.kind = "runtime") =>
           /\ serr # "none"
           /\ stmt.typeOk => serr = "init value is not constant"
           /\ bindings = StartBindings

C9_Witness ==
    /\ stmt.kind = "for" /\ spc = "done"
    /\ stmt.inc.kind = "runtime" /\ fNonConst = "inc"
    /\ serr = "increment statement is not compile-time constant"
    /\ fExpanded = 1

\* The branches an if statement has.
IfBranches(st) == IF st.hasElse THEN <<"T", "F">> ELSE <<"T">>

Assigned(body) ==
    CASE body = "assignX" -> {"x"}
      [] body = "assignY" -> {"y"}
      [] OTHER            -> {}

C11_RecursionRejected ==
    /\ cpc # "overflow"
    /\ \A i, j \in DOMAIN cstack : i # j => cstack[i].fn # cstack[j].fn

(***************************************************************************)
(* Properties of binary expressions.                                       *)
(***************************************************************************)
ConstantZero(o) == o.kind \in {"int32", "uint64"} /\ o.val = 0

\* C12: compiling a / or % expression whose right operand is the constant
\* zero fails with integer divide by zero and adds no instruction, for a
\* constant left operand of the same type and for a runtime left operand.
C12_DivideByConstantZero ==
    (/\ bpc = "compiled"
     /\ bexpr.op \in {"/", "%"}
     /\ ConstantZero(bexpr.right)
     /\ bexpr.left.kind \in {bexpr.right.kind, "runtime"})
    => (bssa.err = "integer divide by zero" /\ bssa.instrs = <<>>)

\* The operators the language defines on two constants of a kind.
Applicable(op, kind) ==
    IF kind = "bool" THEN op \in {"==", "!=", "&&", "||"}
    ELSE op \notin {"&&", "||"}

\* Bit by bit: f is "&", "|", "^" or "&^", on the low n bits of a and b.
RECURSIVE Bitwise(_, _, _, _)
Bitwise(f, a, b, n) ==
    IF n = 0 THEN 0
    ELSE LET x == a % 2
             y == b % 2
             z == CASE f = "&" -> x * y
                    [] f = "|" -> IF x + y > 0 THEN 1 ELSE 0
                    [] f = "^" -> (x + y) % 2
                    [] OTHER   -> x * (1 - y)
         IN  z + 2 * Bitwise(f, a \div 2, b \div 2, n - 1)

\* The value and type of  a op b  in Go, for constants of kind k.
GoValue(op, k, a, b) ==
    LET wrap(x) == IF k = "int32" THEN WrapInt(x) ELSE WrapUint(x)
    IN  CASE op = "+"  -> <<wrap(a + b), k>>
          [] op = "-"  -> <<wrap(a - b), k>>
          [] op = "*"  -> <<wrap(a * b), k>>
          [] op = "/"  -> <<wrap(GoDiv(a, b)), k>>
          [] op = "%"  -> <<wrap(GoMod(a, b)), k>>
          [] op = "<<" -> <<wrap(a * Pow2(b)), k>>
          [] op = ">>" -> <<ShiftRight(a, b), k>>
          [] op \in {"&", "|", "^", "&^"} ->
               <<wrap(Bitwise(op, WrapUint(a), WrapUint(b), IntBits)), k>>
          [] op = "==" -> <<BoolValue(a = b), "bool">>
          [] op = "!=" -> <<BoolValue(a # b), "bool">>
          [] op = "<"  -> <<BoolValue(a < b), "bool">>
          [] op = "<=" -> <<BoolValue(a <= b), "bool">>
          [] op = ">"  -> <<BoolValue(a > b), "bool">>
          [] op = ">=" -> <<BoolValue(a >= b), "bool">>
          [] op = "&&" -> <<a * b, "bool">>
          [] OTHER     -> <<BoolValue(a + b > 0), "bool">>

\* C13: for two constants of the same kind and an operator defined on that
\* kind (a shift count is not negative, a divisor is not zero), Binary.Eval
\* returns ok = true, no error and the value of the operator.
C13_ConstantFolding ==
    (/\ bpc = "evaluated"
     /\ bexpr.left.kind \in {"int32", "uint64", "bool"}
     /\ bexpr.right.kind = bexpr.left.kind
     /\ Applicable(bexpr.op, bexpr.left.kind)
     /\ bexpr.op \in {"/", "%"} => bexpr.right.val # 0
     /\ bexpr.op \in {"<<", ">>"} => bexpr.right.val >= 0)
    => (/\ bres.ok /\ bres.err = "none"
        /\ <<bres.val, bres.type>>
             = GoValue(bexpr.op, bexpr.left.kind, bexpr.left.val, bexpr.right.val))

(***************************************************************************)
(* Properties of the divider and the comparators.                          *)
(***************************************************************************)
Computed(kind) == tkind = kind /\ tpc = "done" /\ ~terr

C15_Comparators ==
    tkind \in {"lt", "le"} /\ tpc = "done" =>
        /\ terr <=> tnr # 1
        /\ ~terr /\ tkind = "lt" => (tvals[TR[0]] = 1 <=> tx < ty)
        /\ ~terr /\ tkind = "le" => (tvals[TR[0]] = 1 <=> tx <= ty)

C15_Witness ==
    /\ Computed("le") /\ tnx = 1 /\ tny = MaxWidth
    /\ tx = ty /\ tx = 1 /\ tvals[TR[0]] = 1

C15_WitnessLt ==
    /\ Computed("lt") /\ tnx = MaxWidth /\ tny = MaxWidth - 1
    /\ tx = 2 /\ ty = 3 /\ tvals[TR[0]] = 1

(***************************************************************************)
(* Properties of returns under a runtime condition.                        *)
(***************************************************************************)
\* What the program returns on the inputs: the statements are run in order
\* and a return ends the function.
RECURSIVE RunExprs(_, _, _, _)
RECURSIVE RunExpr(_, _, _)
RECURSIVE RunList(_, _, _, _)
RunExpr(prog, e, env) ==
    CASE e.k = "var" -> <<env[e.n]>>
      [] e.k = "const" -> <<e.v>>
      [] e.k = "bin" ->
           LET l == RunExpr(prog, e.l, env)[1]
               r == RunExpr(prog, e.r, env)[1]
           IN  IF e.op = "+" THEN <<(l + r) % WordModulus>>
               ELSE IF l > r THEN <<1>> ELSE <<0>>
      [] e.k = "call" ->
           LET args == RunExprs(prog, e.exprs, 1, env)
               fn   == prog[e.f]
           IN  RunList(prog, fn.body, 1,
                       [n \in {fn.args[i] : i \in 1 .. Len(fn.args)} |->
                           args[CHOOSE i \in 1 .. Len(fn.args) : fn.args[i] = n]])

RunExprs(prog, exprs, i, env) ==
    IF i > Len(exprs) THEN <<>>
    ELSE RunExpr(prog, exprs[i], env) \o RunExprs(prog, exprs, i + 1, env)

RunList(prog, list, i, env) ==
    IF i > Len(list) THEN <<>>
    ELSE IF list[i].k = "return" THEN RunExprs(prog, list[i].exprs, 1, env)
    ELSE IF RunExpr(prog, list[i].expr, env)[1] = 1
    THEN Bind(RunList(prog, list[i].true, 1, env), LAMBDA returned :
           IF returned # <<>> THEN returned
           ELSE RunList(prog, list, i + 1, env))
    ELSE RunList(prog, list, i + 1, env)

Returned == rpc = "done" /\ ~rerr

\* C16: a function that returns X under a runtime condition and Y after
\* the if statement gives X where the condition holds and Y where it does
\* not, through a phi on the condition, also when it is instantiated in
\* nested calls and when its tuple is the argument list of another call;
\* Sum2(MinMax(5, 3)) is 8.
C16_ReturnUnderCondition ==
    /\ rpc = "done" => ~rerr
    /\ Returned =>
         /\ rout = RunList(Programs[rprog], Programs[rprog].main.body, 1, rin)
         /\ rprog = "max" =>
              /\ rvals[1].k = "phi"
              /\ rvals[1].cond = Binary(">", [k |-> "arg", n |-> "a"],
                                             [k |-> "arg", n |-> "b"])
              /\ rout[1] = IF rin.a > rin.b THEN rin.a ELSE rin.b
         /\ rprog = "minmax" /\ rin.a = 5 /\ rin.b = 3 => rout = <<8>>

C16_Witness ==
    /\ Returned /\ rprog = "minmax" /\ rin.a = 5 /\ rin.b = 3
    /\ rout = <<8>>

(***************************************************************************)
(* Properties of Compiler.Prune and Compiler.Compile.                      *)
(***************************************************************************)
\* C17: a second call of Prune removes no gate and leaves Compiler.Gates as
\* the first call left it.
C17_PruneIdempotent ==
    Len(kprunes) >= 2 =>
        /\ kprunes[Len(kprunes)] = 0
        /\ kgates = kbefore

C17_Witness ==
    /\ Len(kprunes) = 2 /\ kprunes[1] >= 2 /\ kprunes[2] = 0
    /\ kgates # <<>> /\ kgates = kbefore

\* C18: in the compiled circuit every input wire of a gate is an input of
\* the circuit or the output wire of an earlier gate, and every wire ID is
\* in 0 .. NumWires-1.
C18_TopologicalOrder ==
    kpc = "compiled" =>
        \A k \in 1 .. Len(kcirc.Gates) :
            LET g == kcirc.Gates[k]
                Driven(id) ==
                    \/ \E w \in DOMAIN kcirc.Inputs : kcirc.Inputs[w] = id
                    \/ \E j \in 1 .. k - 1 : kcirc.Gates[j].Output = id
            IN  /\ Driven(g.Input0)
                /\ Driven(g.Input1)
                /\ \A id \in {g.Input0, g.Input1, g.Output} :
                      0 <= id /\ id < kcirc.NumWires

C18_Witness ==
    /\ kpc = "compiled" /\ kprunes # <<>> /\ kprunes[1] > 0
    /\ Len(kcirc.Gates) >= 2
    /\ kcirc.Gates[2].Input0 = kcirc.Gates[1].Output

(***************************************************************************)
(* Properties of array indices and slice bounds.                           *)
(***************************************************************************)
ConstantIndex(kind) == xpc = "done" /\ xkind = kind /\ xfrom.k = "const"

\* The index is accepted with one instruction op when it is within the
\* array, and refused with no instruction when it is not.
IndexChecked(op) ==
    IF 0 <= xfrom.v /\ xfrom.v < xsize
    THEN xerr = "" /\ Len(xinstr) = 1 /\ xinstr[1].op = op
    ELSE xerr = "invalid array index" /\ xinstr = <<>>

\* C19: a constant array index i is accepted only when 0 <= i < ArraySize,
\* in Index.SSA and in Assign.SSA; any other constant index is an 'invalid
\* array index' error and no slice or amov instruction is added.
C19_ArrayIndex ==
    /\ ConstantIndex("index") => IndexChecked("slice")
    /\ ConstantIndex("assign") => IndexChecked("amov")

\* The bounds of the slice, with the defaults for the bounds left out.
SliceFrom == IF xfrom.k = "nil" THEN 0 ELSE xfrom.v
SliceTo == IF xto.k = "nil" THEN xbits ELSE xto.v

\* C20: a slice with constant bounds compiles exactly when
\* 0 <= from < to <= width, to a slice instruction of width to - from; any
\* other bounds are a 'slice bounds out of range' error and no slice
\* instruction is added.
C20_SliceBounds ==
    xpc = "done" /\ xkind = "slice" /\ xfrom.k # "runtime" /\ xto.k # "runtime" =>
        IF 0 <= SliceFrom /\ SliceFrom < SliceTo /\ SliceTo <= xbits
        THEN /\ xerr = "" /\ Len(xinstr) = 1
             /\ xinstr[1].bits = SliceTo - SliceFrom
        ELSE xerr = "slice bounds out of range" /\ xinstr = <<>>

(***************************************************************************)
(* Properties of the driver.                                               *)
(***************************************************************************)
\* C21: every error outcome of main ends the process with a nonzero exit
\* code, and exit code 0 is reached only on success: once the process has
\* exited, the exit code is 0 exactly when main printed no error.
C21_ExitCode == dpc = "exited" => (dexit = 0 <=> dout = "")

(***************************************************************************)
(* Properties of the parser.                                               *)
(***************************************************************************)
\* The errors Parse returns for malformed input.
Malformed ==
    {"unexpected character", "unexpected token",
     "parseBlock not implemented yet"}

\* C22: every error Parse returns for malformed input (unexpected
\* character, unexpected token, unsupported block content) carries the name
\* of the input and the line and column of the offending input, in the form
\* file:line:col: message.
C22_ErrorLocation ==
    ppc = "done" /\ pres.err.msg \in Malformed =>
        pres.err.name = InputName /\ Len(pres.err.point) = 1

(***************************************************************************)
(* Properties of evaluatorMode.                                            *)
(***************************************************************************)
\* The step that follows a session: the connection is closed; after io.EOF
\* (as after nil) the evaluator returns nil when once is set and accepts
\* the next connection otherwise, after any other error it returns it.
AfterSession ==
    vpc = "close" /\ vpc' # "close" =>
        /\ vopen' = {}
        /\ IF verr = "EOF"
           THEN IF vonce THEN vpc' = "returned" /\ vret' = ""
                ELSE vpc' = "accept"
           ELSE verr # "" => vpc' = "returned" /\ vret' = verr

\* Once evaluatorMode has returned, no connection is accepted.
NoAcceptAfterReturn == vpc = "returned" => vopen' = vopen /\ vlog' = vlog

\* C23: a session that ends with io.EOF is no error: its connection is
\* closed and the next one is accepted (or nil is returned when once is
\* set); a session that ends with another error makes evaluatorMode return
\* that error and accept no further connection; at most one connection is
\* open at a time.
C23_EvaluatorMode ==
    /\ [](Cardinality(vopen) <= 1)
    /\ [][AfterSession /\ NoAcceptAfterReturn]_vars

\* A second session was served after one that ended with io.EOF, and its
\* error was returned.
C23_Witness ==
    /\ Len(vlog) = 2 /\ vlog[1] = "EOF" /\ vlog[2] = "session error"
    /\ vpc = "returned" /\ vret = "session error" /\ vopen = {}

(***************************************************************************)
(* Properties of the shifter.                                              *)
(***************************************************************************)
\* C24: ShiftLeft(w, size, count) with count >= 0 returns size wires: the
\* zero wire below count, w[i - count] from count up to
\* min(size, count + len(w)), the zero wire above; a shift by
\* count >= size returns size zero wires and does not fail.
C24_ShiftLeft ==
    hpc = "done" =>
        /\ ~hres.panic
        /\ DOMAIN hres.wires = 0 .. hsize - 1
        /\ \A i \in 0 .. hsize - 1 :
               hres.wires[i] = IF i >= hcount /\ i < hcount + Width(hw)
                               THEN hw[i - hcount]
                               ELSE TheZeroWire

(***************************************************************************)
(* Properties of the BMR offline phase.                                    *)
(***************************************************************************)
\* offlinePhase has returned without error.
OfflineDone == ypc = "done" /\ yres.err = ""

\* C25: after offlinePhase returns without error, every wire has
\* L1 = L0 XOR R, and every XOR gate has lambda[out] = lambda[in0] XOR
\* lambda[in1] and L0[out] = L0[in0] XOR L0[in1] on the final values;
\* offlinePhase returns an error and sets no R when the number of peers
\* that are not nil is not numPlayers - 1.
C25_OfflinePhase ==
    /\ OfflineDone =>
           /\ \A i \in 0 .. yc.NumWires - 1 :
                  yres.wires[i].L1 = Xor(yres.wires[i].L0, yres.r[1])
           /\ \A k \in 1 .. Len(yc.Gates) :
                  LET g == yc.Gates[k]
                  IN  g.op = "XOR" =>
                          /\ LambdaBit(yres.lambda, g.out) =
                                 (LambdaBit(yres.lambda, g.in0)
                                  + LambdaBit(yres.lambda, g.in1)) % 2
                          /\ yres.wires[g.out].L0 =
                                 Xor(yres.wires[g.in0].L0,
                                     yres.wires[g.in1].L0)
    /\ ypc = "done" /\ Cardinality(ypeers) # NumPlayers - 1 =>
           yres.err # "" /\ yres.r = <<>>
    /\ ypc = "done" /\ Cardinality(ypeers) = NumPlayers - 1 =>
           yres.err = ""

\* offlinePhase has patched an XOR gate whose input is the output of
\* another XOR gate, with R and the labels of the inputs not zero.
C25_Witness ==
    /\ OfflineDone
    /\ Len(yc.Gates) = 2
    /\ yc.Gates[1].op = "XOR" /\ yc.Gates[2].op = "XOR"
    /\ yc.Gates[2].in0 = yc.Gates[1].out
    /\ yres.r[1] # 0
    /\ yres.wires[0].L0 # 0 /\ yres.wires[1].L0 # yres.wires[0].L0
    /\ LambdaBit(yres.lambda, yc.Gates[2].out) = 1

(***************************************************************************)
(* Properties of the peer-to-peer network.                                 *)
(***************************************************************************)
\* An entry of nw.Peers, once inserted, stays the Peer of its connection.
PeerKept(n, id) ==
    npeers[n][id].present =>
        /\ npeers'[n][id].present
        /\ npeers'[n][id].conn = npeers[n][id].conn
        /\ npeers'[n][id].client = npeers[n][id].client

\* newPeer on a connection c for an id that is present closes c and leaves
\* nw.Peers as it is.
ArrivalClosed(n) ==
    /\ napc[n] = "newPeer" /\ napc'[n] # "newPeer"
       /\ npeers[n][Other(n)].present =>
           n \in nconn'[n].closed /\ npeers' = npeers
    /\ nlpc[n] = "newPeer" /\ nlpc'[n] # "newPeer"
       /\ npeers[n][Other(n)].present =>
           n \in nconn'[Other(n)].closed /\ npeers' = npeers

\* C26: under every interleaving of the accept loop and AddPeer, an entry
\* of Network.Peers is never replaced or removed once inserted (so there
\* is at most one Peer per id), and every connection that arrives, inbound
\* or outbound, for an id that is present is closed without a change of
\* the existing Peer.
C26_OnePeerPerID ==
    [][\A n \in Nets :
           ArrivalClosed(n) /\ \A id \in Nets : PeerKept(n, id)]_vars

\* Network 0 holds the Peer of the connection it dialled, and has closed
\* the connection of network 1 that arrived for the same id.
C26_Witness ==
    /\ npeers[0][1].present /\ npeers[0][1].conn = 0
    /\ 0 \in nconn[1].closed

\* C27: whenever AddPeer has returned nil, the Peer stored under the id has
\* completed Peer.init successfully: its otSender and otReceiver are set.
C27_AddPeerInitialised ==
    \A n \in Nets :
        napc[n] = "returned" =>
            /\ npeers[n][Other(n)].present
            /\ npeers[n][Other(n)].otSender
            /\ npeers[n][Other(n)].otReceiver

\* C28: when both networks hold a Peer for the other, the two Peers keep
\* the two ends of one connection, and neither side has closed it.
C28_SameConnection ==
    npeers[0][1].present /\ npeers[1][0].present =>
        /\ npeers[0][1].conn = npeers[1][0].conn
        /\ nconn[npeers[0][1].conn].closed = {}

(***************************************************************************)
(* Properties of OTLambda.                                                 *)
(***************************************************************************)
SameCount == ocount[0] = ocount[1]

BothDone == \A p \in LambdaPeers : ophase[p] = "done"

\* C29: with the same count on both sides, every blocking receive is
\* matched by a flushed send of the other side and both calls of OTLambda
\* return; the client is served all its transfers by the server before it
\* serves one itself; with different counts OTLambdaRespond returns a
\* protocol error before it performs a transfer.
C29_OTLambda ==
    /\ SameCount => <>BothDone
    /\ ~SameCount =>
           <>(ophase[1] = "failed" /\ ostep[1] = "protocol error")
    /\ [](\A p \in LambdaPeers : ophase[p] = "failed" => oxfers[p] = 0)
    /\ [](oxfers[0] > 0 => oxfers[1] = ocount[1])

\* Both calls have returned after MaxOTs transfers in each direction.
C29_Witness ==
    /\ BothDone
    /\ \A p \in LambdaPeers : ocount[p] = MaxOTs /\ oxfers[p] = MaxOTs
    /\ \A p \in LambdaPeers : owire[p] = <<>>

(***************************************************************************)
(* Properties of assignments.                                              *)
(***************************************************************************)
\* The last l-value of the assignment that names n.
LastAssigned(n) ==
    CHOOSE i \in 1 .. Len(alvalues) :
        /\ alvalues[i].name = n
        /\ \A j \in (i + 1) .. Len(alvalues) : alvalues[j].name # n

\* C30: when Assign.SSA succeeds on n l-values and n values, every l-value
\* has been assigned: there is one mov (for a name) or amov (for an indexed
\* element) per l-value, in order, and each assigned name is bound to the
\* fresh variable of its last assignment, also when an indexed l-value is
\* followed by further l-values.
C30_AllAssigned ==
    apc = "done" /\ ares.err = "" =>
        /\ Len(ares.instrs) = Len(alvalues)
        /\ \A i \in 1 .. Len(alvalues) :
               /\ ares.instrs[i].op =
                      (IF alvalues[i].k = "name" THEN "mov" ELSE "amov")
               /\ ares.instrs[i].v = i
               /\ ares.instrs[i].name = alvalues[i].name
               /\ ares.bindings[alvalues[i].name] =
                      ares.instrs[LastAssigned(alvalues[i].name)].ver

====
